---- MODULE Spec2Model ----
(***************************************************************************)
(* State-consistency core of PreSocial.                                    *)
(*                                                                         *)
(*  - VoteProvider (apps/web/src/App.jsx): the client's optimistic vote    *)
(*    state, specification SpecVote.                                       *)
(*  - Persistent storage service (apps/api/src/services/storage.ts): the   *)
(*    dirty-tracked vote/bookmark ledger, specification SpecLedger.        *)
(***************************************************************************)
EXTENDS Integers, Sequences, FiniteSets, TLC

\* ---------------------------------------------------------------- bounds
MaxCalls == 2     \* vote() calls that pass the guards
MaxLogins == 1    \* sign-ins of the browser session
MaxOps == 2       \* calls of the storage service's exported functions

Posts == {1, 2}
VoteTypes == {"up", "down"}

\* ---------------------------------------------------------------- helpers
\* JavaScript property lookup: an absent key reads as undefined.
Undefined == "undefined"
Lookup(m, k) == IF k \in DOMAIN m THEN m[k] ELSE Undefined
\* { ...m, [k]: v }
MapSet(m, k, v) == [x \in (DOMAIN m) \cup {k} |-> IF x = k THEN v ELSE m[x]]
\* delete m[k]
MapDelete(m, k) == [x \in (DOMAIN m) \ {k} |-> m[x]]
EmptyMap == << >>
\* The bodies of the GET /votes responses the model draws from.
ServerVotes == {EmptyMap, [x \in {1} |-> "up"], [x \in {1, 2} |-> "down"]}

VARIABLES
  \* ---- client: AuthProvider / localStorage
  isAuthenticated,   \* !!user
  token,             \* localStorage holds presuite_token
  logins,            \* how many times setUser(user) has run
  \* ---- client: VoteProvider
  votes,             \* useState({}): postId -> 'up' | 'down'
  scoreAdjustments,  \* useState({}): postId -> int
  loadsInFlight,     \* GET /votes requests of loadUserVotes not yet resolved
  calls,             \* the closures of the vote() calls awaiting their fetch
  started,           \* how many vote() calls have passed the guards
  lastReturn,        \* the vote() that returned in the step just taken, if any
  trace,             \* SpecVoteTrace only: every vote() that passed the guards
  \* ---- server: storage service (storage.ts)
  pc,                \* "boot" before initStorage, "running", "exited"
  userVotes,         \* Map userId -> Map postId -> 'up' | 'down'
  userBookmarks,     \* Map userId -> Map postId -> SavedPost
  votesDirty,
  bookmarksDirty,
  votesFile,         \* data/votes.json
  bookmarksFile,     \* data/bookmarks.json
  ops,               \* how many exported functions have been called
  lastOp,            \* the step just taken: its name, write outcomes, result
  lastSet,           \* per (userId, postId): the vote of the last setUserVote
  lastMark           \* per (userId, postId): the last bookmark mutation

voteVars == <<isAuthenticated, token, logins, votes, scoreAdjustments,
              loadsInFlight, calls, started, lastReturn, trace>>
ledgerVars == <<pc, userVotes, userBookmarks, votesDirty, bookmarksDirty,
                votesFile, bookmarksFile, ops, lastOp, lastSet, lastMark>>

VARIABLES
  \* ---- server: routes/social.ts (part_002)
  routeUserVotes,     \* part_002:37  const userVotes
  routeUserBookmarks, \* part_002:62  const userBookmarks
  requests,           \* the POST /vote and POST /bookmark handlers started
  clock               \* counts the arrivals and the responses

routeVars == <<routeUserVotes, routeUserBookmarks, requests, clock>>

VARIABLES
  \* ---- server: cache service (storage.ts:299-510)
  redisUrl,      \* process.env.REDIS_URL is set
  redisClient,   \* storage.ts:316  "null" or "client"
  memoryCache,   \* storage.ts:305  prefixed key -> CacheEntry
  remoteStore,   \* the keys of the Redis server: key -> [text, expiresAt]
  now,           \* Date.now(), in milliseconds
  cacheOps,      \* how many cache functions have been called
  lastCacheOp,   \* the cache function that ran last
  fellBack       \* getRedisClient has returned null to some operation

cacheVars == <<redisUrl, redisClient, memoryCache, remoteStore, now, cacheOps,
               lastCacheOp, fellBack>>

VARIABLES
  \* ---- client: PostPage (part_008)
  comments,      \* useState([]): the flat comment list of the post
  commentTree,   \* useMemo(() => buildCommentTree(comments))
  treeBuilt      \* the memo has been computed for comments

treeVars == <<comments, commentTree, treeBuilt>>

VARIABLES
  \* ---- server: GET /search computing its cache key (part_002:106-109)
  searchQuery,    \* q: the query text, a sequence of characters
  searchOptions,  \* the options object, its fields in insertion order
  searchKey       \* generateSearchKey(q, options); empty before the call

keyVars == <<searchQuery, searchOptions, searchKey>>

VARIABLES
  \* ---- client: BookmarkProvider (AuthContext.jsx:183-313)
  bookmarkFlags,  \* bookmarks, useState({}): postId -> true
  savedPosts,     \* useState([]): the snapshots of the saved posts
  bookmarkLoads,  \* GET /bookmarks requests of loadUserBookmarks in flight
  toggleCalls,    \* the closures of the toggleBookmark() calls awaiting fetch
  toggles,        \* how many toggleBookmark() calls have passed the guards
  lastToggle      \* the toggleBookmark() step just taken, if any

bookmarkVars == <<bookmarkFlags, savedPosts, bookmarkLoads, toggleCalls, toggles,
                  lastToggle>>

VARIABLES
  \* ---- server: the read routes over the Lemmy service (part_002:91-286)
  feedCache,     \* the cached responses, by cache key
  feedPending,   \* the request waiting for the Lemmy service, if any
  feedResponse,  \* the response of the handler that returned last
  feedServed     \* how many requests have arrived

feedVars == <<feedCache, feedPending, feedResponse, feedServed>>

VARIABLES
  \* ---- server: the rate limiting middleware (lemmy.ts:354-426)
  store,         \* const store: the own properties, key -> {count, resetTime}
  limiterNow,    \* Date.now() as the middleware reads it
  limited,       \* how many requests have gone through the middleware
  lastLimited,   \* what the middleware did with the latest request
  windows        \* per key, the window in course and what it let through
limitVars == <<store, limiterNow, limited, lastLimited, windows>>

vars == <<feedVars, voteVars, ledgerVars, routeVars, cacheVars, treeVars, keyVars, bookmarkVars,
          limitVars>>
outsideVote == <<feedVars, ledgerVars, routeVars, cacheVars, treeVars, keyVars, bookmarkVars,
   limitVars>>
outsideLedger == <<feedVars, voteVars, routeVars, cacheVars, treeVars, keyVars, bookmarkVars,
   limitVars>>
outsideRoutes == <<feedVars, voteVars, ledgerVars, cacheVars, treeVars, keyVars, bookmarkVars,
   limitVars>>
outsideCache == <<feedVars, voteVars, ledgerVars, routeVars, treeVars, keyVars, bookmarkVars,
   limitVars>>
outsideTree == <<feedVars, voteVars, ledgerVars, routeVars, cacheVars, keyVars, bookmarkVars,
   limitVars>>
outsideKey == <<voteVars, ledgerVars, routeVars, cacheVars, treeVars,
               bookmarkVars, feedVars,
   limitVars>>
outsideFeed == <<voteVars, ledgerVars, routeVars, cacheVars, treeVars, keyVars,
                bookmarkVars,
   limitVars>>
\* The BookmarkProvider reads isAuthenticated and the token of the AuthProvider.
outsideBookmark == <<votes, scoreAdjustments, loadsInFlight, calls, started,
                     lastReturn, trace, ledgerVars, routeVars, cacheVars,
                     treeVars, keyVars, feedVars,
   limitVars>>

\* How many requests the read routes serve.
MaxFeedRequests == 3
\* How many requests reach the rate limiter, and how often its clock advances.
MaxLimited == 4
MaxLimitTicks == 3
\* ---- a JavaScript number: an integer or NaN
Number(n) == [nan |-> FALSE, n |-> n]
NaN == [nan |-> TRUE, n |-> 0]
\* ---- a header that is not set, and the middleware before any request
NoHeader == [present |-> FALSE, value |-> Number(0)]
NoLimited == [key |-> "", next |-> FALSE, status |-> 0,
              remaining |-> Number(0), reset |-> Number(0),
              retryAfter |-> NoHeader]
\* ---- the parts of a response body, the request in flight and the response
NoBody == [posts |-> "", comments |-> "", communities |-> ""]
NoFeed == [route |-> "", key |-> << >>]
NoFeedResponse == [route |-> "", key |-> << >>, status |-> 0, error |-> "", cached |-> FALSE,
                   body |-> NoBody, upstreamFailed |-> FALSE]

\* How many toggleBookmark() calls pass the guards.
MaxToggles == 3
\* ---- a toggleBookmark() call between its optimistic update and the end of
\* its fetch, and what the step just taken did
NoToggle == [kind |-> "", postId |-> 0, isCurrentlySaved |-> FALSE,
             previousBookmarks |-> << >>, previousSavedPosts |-> << >>,
             success |-> FALSE, saved |-> FALSE, error |-> ""]

\* storage.ts:458  options?: Record<string, unknown> left out by the caller
NoOptions == [given |-> FALSE, entries |-> << >>]

\* The cache function that has run: what it was called with, the backend its
\* key went to, whether getRedisClient tried to connect, whether an error was
\* caught inside it, whether an error left it, and what it returned.
NoCacheOp == [name |-> "", key |-> << >>, value |-> "", ttl |-> 0, at |-> 0,
              backend |-> "", backendKey |-> << >>, attempt |-> FALSE,
              caught |-> FALSE, threw |-> FALSE, result |-> "",
              swept |-> FALSE]

\* How many requests the server receives.
MaxRequests == 3
ReqSlots == 1..MaxRequests
NoResponse == [code |-> 0, previousVote |-> "", vote |-> "", scoreChange |-> 0,
               saved |-> FALSE]
NoRequest == [status |-> "idle", route |-> "", userId |-> "", postId |-> 0,
              vote |-> "", arrived |-> 0, finished |-> 0, response |-> NoResponse]

\* ======================================================== VoteProvider
NewVote_NoToggle(currentVote, voteType) == voteType

\* App.jsx:81  const newVote = currentVote === voteType ? 'none' : voteType
NewVote(currentVote, voteType) ==
  IF currentVote = voteType THEN "none" ELSE voteType

\* !currentVote
NoVote(currentVote) == currentVote = Undefined

Adjustment_NoSwitch(currentVote, newVote) ==
  IF newVote = "none" THEN
       IF currentVote = "up" THEN -1
       ELSE IF currentVote = "down" THEN 1 ELSE 0
  ELSE IF newVote = "up" THEN 1
  ELSE IF newVote = "down" THEN -1
  ELSE 0

\* App.jsx:96-106  score adjustment for the UI
Adjustment(currentVote, newVote) ==
  IF newVote = "none" THEN
       IF currentVote = "up" THEN -1
       ELSE IF currentVote = "down" THEN 1 ELSE 0
  ELSE IF newVote = "up" THEN
       IF currentVote = "down" THEN 2
       ELSE IF NoVote(currentVote) THEN 1 ELSE 0
  ELSE IF newVote = "down" THEN
       IF currentVote = "up" THEN -2
       ELSE IF NoVote(currentVote) THEN -1 ELSE 0
  ELSE 0

\* App.jsx:87-93  the optimistic votes state
OptimisticVotes(v, postId, newVote) ==
  IF newVote = "none" THEN MapDelete(v, postId) ELSE MapSet(v, postId, newVote)

\* App.jsx:108-111  prev => ({ ...prev, [postId]: (prev[postId] || 0) + adjustment })
AdjOf(a, postId) == IF postId \in DOMAIN a THEN a[postId] ELSE 0
OptimisticAdjustments(a, postId, adjustment) ==
  MapSet(a, postId, AdjOf(a, postId) + adjustment)

\* App.jsx:144-146
getAdjustedScore(postId, originalScore) ==
  originalScore + AdjOf(scoreAdjustments, postId)

\* App.jsx:140-142
getVote(postId) == IF postId \in DOMAIN votes THEN votes[postId] ELSE "null"

\* ---- a vote() call between its optimistic update and the end of its fetch
NoCall == [status |-> "idle", postId |-> 0, voteType |-> "", currentVote |-> "",
           newVote |-> "", preAdj |-> 0, previousVotes |-> EmptyMap,
           previousAdjustments |-> EmptyMap, tix |-> 0]
Slots == 1..MaxCalls
Pending == {i \in Slots : calls[i].status = "pending"}
Idle == Slots \ Pending
FirstIdle == CHOOSE i \in Idle : \A j \in Idle : i <= j

\* ---- what a vote() returned: the call, how its request ended, the result
NoReturn == [call |-> 0, postId |-> 0, currentVote |-> "", newVote |-> "",
             outcome |-> "", success |-> FALSE, error |-> ""]

\* ---- the recorded calls (ghost state of SpecVoteTrace)
\* live: votes were not reset by a sign-out since the call started;
\* reloaded: setVotes(data.votes) ran since the call started.
TraceEntry(postId, voteType, currentVote, newVote, preAdj) ==
  [postId |-> postId, voteType |-> voteType, currentVote |-> currentVote,
   newVote |-> newVote, preAdj |-> preAdj, status |-> "pending", live |-> TRUE, reloaded |-> FALSE]
TraceSettle(tix, status) ==
  IF tix = 0 THEN trace ELSE [trace EXCEPT ![tix].status = status]
TraceMark(lost, reload) ==
  [k \in 1..Len(trace) |->
     [trace[k] EXCEPT !.live = @ /\ ~lost, !.reloaded = @ \/ reload]]

\* App.jsx:69-76  the two early returns of vote()
voteRejected(postId, voteType) ==
  /\ ~isAuthenticated \/ ~token
  /\ lastReturn' = [NoReturn EXCEPT !.postId = postId, !.outcome = "rejected",
                      !.error = IF ~isAuthenticated THEN "Please sign in to vote"
                                ELSE "Authentication required"]
  /\ UNCHANGED <<started, isAuthenticated, token, logins, votes, scoreAdjustments,
                 loadsInFlight, calls, trace>>
  /\ UNCHANGED outsideVote

\* App.jsx:78-121  vote() up to the await of fetch
vote(postId, voteType, rec) ==
  /\ started < MaxCalls
  /\ isAuthenticated /\ token
  /\ LET currentVote == Lookup(votes, postId)
         newVote == NewVote(currentVote, voteType)
         adjustment == Adjustment(currentVote, newVote)
     IN /\ votes' = OptimisticVotes(votes, postId, newVote)
        /\ scoreAdjustments' = OptimisticAdjustments(scoreAdjustments, postId, adjustment)
        /\ calls' = [calls EXCEPT ![FirstIdle] =
             [status |-> "pending", postId |-> postId, voteType |-> voteType,
              currentVote |-> currentVote, newVote |-> newVote,
              preAdj |-> AdjOf(scoreAdjustments, postId),
              previousVotes |-> votes,
              previousAdjustments |-> scoreAdjustments,
              tix |-> IF rec THEN Len(trace) + 1 ELSE 0]]
        /\ trace' = IF rec
                    THEN Append(trace, TraceEntry(postId, voteType, currentVote, newVote,
                                                  AdjOf(scoreAdjustments, postId)))
                    ELSE trace
  /\ started' = started + 1
  /\ lastReturn' = NoReturn
  /\ UNCHANGED <<isAuthenticated, token, logins, loadsInFlight>>
  /\ UNCHANGED outsideVote

Returned(i, outcome, success, error) ==
  [call |-> i, postId |-> calls[i].postId, currentVote |-> calls[i].currentVote,
   newVote |-> calls[i].newVote, outcome |-> outcome, success |-> success,
   error |-> error]

\* App.jsx:123,131  response.ok: return { success: true }
voteConfirmed(i) ==
  /\ i \in Pending
  /\ calls' = [calls EXCEPT ![i] = NoCall]
  /\ lastReturn' = Returned(i, "ok", TRUE, "")
  /\ trace' = TraceSettle(calls[i].tix, "ok")
  /\ UNCHANGED <<started, isAuthenticated, token, logins, votes, scoreAdjustments,
                 loadsInFlight>>
  /\ UNCHANGED outsideVote

\* App.jsx:125,134  setVotes(previousVotes)
RevertVotes(c) == c.previousVotes
RevertAdjustments_Keep(c) == scoreAdjustments
\* App.jsx:126,135  setScoreAdjustments(previousAdjustments)
RevertAdjustments(c) == c.previousAdjustments

\* How the confirmation request can fail:
\*   "error"    non-OK response whose JSON body has an error field   (App.jsx:123-128)
\*   "noerror"  non-OK response whose JSON body has no error field   (App.jsx:128)
\*   "badbody"  non-OK response whose body is not JSON: response.json()
\*              throws inside the try and the catch block runs too   (App.jsx:127,132-136)
\*   "network"  fetch rejects                                         (App.jsx:132-136)
Failures == {"error", "noerror", "badbody", "network"}
\* App.jsx:128,136  the error of the returned result
FailureMessage(f) ==
  CASE f = "error" -> "Failed to record vote"
    [] f = "noerror" -> "Failed to vote"
    [] OTHER -> "Network error"
\* App.jsx:128,136  return { success: false, error: ... }
FailureSuccess(f) == FALSE

\* App.jsx:123-137  the failure paths of vote()
voteFailed(i, f) ==
  /\ i \in Pending
  /\ votes' = RevertVotes(calls[i])
  /\ scoreAdjustments' = RevertAdjustments(calls[i])
  /\ calls' = [calls EXCEPT ![i] = NoCall]
  /\ lastReturn' = Returned(i, f, FailureSuccess(f), FailureMessage(f))
  /\ trace' = TraceSettle(calls[i].tix, "failed")
  /\ UNCHANGED <<started, isAuthenticated, token, logins, loadsInFlight>>
  /\ UNCHANGED outsideVote

\* authService.login / register: localStorage.setItem(TOKEN_KEY, ...)
storeToken ==
  /\ ~isAuthenticated /\ ~token
  /\ logins < MaxLogins
  /\ token' = TRUE
  /\ lastReturn' = NoReturn
  /\ UNCHANGED <<started, isAuthenticated, logins, votes, scoreAdjustments, loadsInFlight,
                 calls, trace>>
  /\ UNCHANGED outsideVote

\* AuthProvider setUser(user), then the effect App.jsx:42-44 starts loadUserVotes
setUser ==
  /\ ~isAuthenticated /\ token
  /\ logins < MaxLogins
  /\ isAuthenticated' = TRUE
  /\ logins' = logins + 1
  /\ loadsInFlight' = loadsInFlight + 1
  /\ lastReturn' = NoReturn
  /\ UNCHANGED <<started, token, votes, scoreAdjustments, calls, trace>>
  /\ UNCHANGED outsideVote

\* authService.logout: localStorage.removeItem(TOKEN_KEY)
removeToken ==
  /\ isAuthenticated /\ token
  /\ token' = FALSE
  /\ lastReturn' = NoReturn
  /\ UNCHANGED <<started, isAuthenticated, logins, votes, scoreAdjustments, loadsInFlight,
                 calls, trace>>
  /\ UNCHANGED outsideVote

\* AuthProvider setUser(null), then the effect App.jsx:45-48
clearUser ==
  /\ isAuthenticated /\ ~token
  /\ isAuthenticated' = FALSE
  /\ votes' = EmptyMap
  /\ scoreAdjustments' = EmptyMap
  /\ trace' = TraceMark(TRUE, FALSE)
  /\ lastReturn' = NoReturn
  /\ UNCHANGED <<started, token, logins, loadsInFlight, calls>>
  /\ UNCHANGED outsideVote

\* App.jsx:59-62  loadUserVotes: response.ok, setVotes(data.votes || {})
loadUserVotesOk(serverVotes) ==
  /\ loadsInFlight > 0
  /\ loadsInFlight' = loadsInFlight - 1
  /\ votes' = serverVotes
  /\ trace' = TraceMark(FALSE, TRUE)
  /\ lastReturn' = NoReturn
  /\ UNCHANGED <<started, isAuthenticated, token, logins, scoreAdjustments, calls>>
  /\ UNCHANGED outsideVote

\* App.jsx:59,63-65  loadUserVotes: non-OK response or a thrown error
loadUserVotesFailed ==
  /\ loadsInFlight > 0
  /\ loadsInFlight' = loadsInFlight - 1
  /\ lastReturn' = NoReturn
  /\ UNCHANGED <<started, isAuthenticated, token, logins, votes, scoreAdjustments, calls,
                 trace>>
  /\ UNCHANGED outsideVote

\* storage.ts:17-22  the storage module before initStorage
NoOp == [name |-> "", wv |-> "", wb |-> "", dir |-> TRUE, result |-> "",
         userId |-> "", postId |-> 0]
\* A postId is a JavaScript number (z.number().positive(), part_002:31): the
\* model counts numbers in halves, so Num(1) is 1 and Num(1) + 1 is 1.5.
Num(n) == 2 * n
NeverSet == [u \in {"u1", "u2", "__proto__"} |-> [q \in Num(1)..Num(2) |-> "unset"]]

\* App.jsx:37-39 and AuthProvider's useState(null); the server is not started
InitVote ==
  /\ isAuthenticated = FALSE
  /\ token = FALSE
  /\ logins = 0
  /\ votes = EmptyMap
  /\ scoreAdjustments = EmptyMap
  /\ loadsInFlight = 0
  /\ calls = [i \in Slots |-> NoCall]
  /\ started = 0
  /\ lastReturn = NoReturn
  /\ trace = << >>
  /\ pc = "boot"
  /\ userVotes = EmptyMap
  /\ userBookmarks = EmptyMap
  /\ votesDirty = FALSE
  /\ bookmarksDirty = FALSE
  /\ votesFile = [kind |-> "missing", data |-> EmptyMap]
  /\ bookmarksFile = [kind |-> "missing", data |-> EmptyMap]
  /\ ops = 0
  /\ lastOp = NoOp
  /\ lastSet = NeverSet
  /\ lastMark = NeverSet
  /\ routeUserVotes = EmptyMap
  /\ routeUserBookmarks = EmptyMap
  /\ requests = [i \in ReqSlots |-> NoRequest]
  /\ clock = 0
  /\ redisUrl = FALSE
  /\ redisClient = "null"
  /\ memoryCache = EmptyMap
  /\ remoteStore = EmptyMap
  /\ now = 0
  /\ cacheOps = 0
  /\ lastCacheOp = NoCacheOp
  /\ fellBack = FALSE
  /\ comments = << >>
  /\ commentTree = << >>
  /\ treeBuilt = FALSE
  /\ searchQuery = << >>
  /\ searchOptions = NoOptions
  /\ searchKey = << >>
  /\ bookmarkFlags = << >>
  /\ savedPosts = << >>
  /\ bookmarkLoads = 0
  /\ toggleCalls = [i \in 1..MaxToggles |-> NoToggle]
  /\ toggles = 0
  /\ lastToggle = NoToggle
  /\ feedCache = << >>
  /\ feedPending = NoFeed
  /\ feedResponse = NoFeedResponse
  /\ feedServed = 0
  /\ store = << >>
  /\ limiterNow = 0
  /\ limited = 0
  /\ lastLimited = NoLimited
  /\ windows = << >>

NextVote ==
  \/ \E p \in Posts, vt \in VoteTypes : voteRejected(p, vt)
  \/ \E p \in Posts, vt \in VoteTypes : vote(p, vt, FALSE)
  \/ \E i \in Slots : voteConfirmed(i)
  \/ \E i \in Slots, f \in Failures : voteFailed(i, f)
  \/ storeToken
  \/ setUser
  \/ removeToken
  \/ clearUser
  \/ \E sv \in ServerVotes : loadUserVotesOk(sv)
  \/ loadUserVotesFailed

NextVoteTrace ==
  \/ \E p \in Posts, vt \in VoteTypes : voteRejected(p, vt)
  \/ \E p \in Posts, vt \in VoteTypes : vote(p, vt, TRUE)
  \/ \E i \in Slots : voteConfirmed(i)
  \/ \E i \in Slots, f \in Failures : voteFailed(i, f)
  \/ storeToken
  \/ setUser
  \/ removeToken
  \/ clearUser
  \/ \E sv \in ServerVotes : loadUserVotesOk(sv)
  \/ loadUserVotesFailed

\* ===================================================== storage service
Users == {"u1", "u2"}
LedgerPosts == {Num(1), Num(2)}
\* addUserBookmark's post argument: the snapshot of a post
SavedPost(p) == [id |-> p, title |-> "post", savedAt |-> "2024-01-01T00:00:00Z"]

\* storage.ts:111,136  data[userId][postId]: the number as a property key is
\* its decimal string, "1" for 1 and "1.5" for 1.5.
KeyOf(p) == IF p % 2 = 0 THEN ToString(p \div 2)
            ELSE ToString(p \div 2) \o ".5"
\* storage.ts:60,85  parseInt reads the leading digits and stops at the point.
parseInt(k) == IF \E p \in 0..19 : KeyOf(p) = k
               THEN Num((CHOOSE p \in 0..19 : KeyOf(p) = k) \div 2)
               ELSE -1

\* A file: missing, unparseable (JSON.parse or readFileSync throws), or a
\* JSON document userId -> (postId as a string -> value).
MissingFile == [kind |-> "missing", data |-> EmptyMap]
CorruptFile == [kind |-> "corrupt", data |-> EmptyMap]
JsonFile(d) == [kind |-> "json", data |-> d]

\* storage.ts:107-115, 132-140  the own properties of the Record handed to
\* JSON.stringify.  data["__proto__"] = {} replaces the prototype of data and
\* adds no property, so that user is not written.
Serialize(m) ==
  [u \in DOMAIN m \ {"__proto__"} |->
     [k \in {KeyOf(q) : q \in DOMAIN m[u]} |->
        m[u][CHOOSE q \in DOMAIN m[u] : KeyOf(q) = k]]]

\* storage.ts:55-63, 80-88  the Map built from the parsed document.  Of two
\* keys with one parseInt the later of Object.entries is kept: integer keys
\* come first, so "1.5" overwrites "1".
Parse(d) ==
  [u \in DOMAIN d |->
     [q \in {parseInt(k) : k \in DOMAIN d[u]} |->
        IF KeyOf(q + 1) \in DOMAIN d[u] THEN d[u][KeyOf(q + 1)]
        ELSE d[u][KeyOf(q)]]]

loadVotes_Abort == IF votesFile.kind = "corrupt" THEN [ok |-> FALSE, map |-> EmptyMap]
                   ELSE IF votesFile.kind = "json"
                        THEN [ok |-> TRUE, map |-> Parse(votesFile.data)]
                        ELSE [ok |-> TRUE, map |-> EmptyMap]
\* storage.ts:51-71  ok: the function returned (it always does: the catch)
loadVotes ==
  IF votesFile.kind = "json" THEN [ok |-> TRUE, map |-> Parse(votesFile.data)]
  ELSE [ok |-> TRUE, map |-> EmptyMap]

\* storage.ts:76-96
loadBookmarks ==
  IF bookmarksFile.kind = "json" THEN [ok |-> TRUE, map |-> Parse(bookmarksFile.data)]
  ELSE [ok |-> TRUE, map |-> EmptyMap]

\* How a save's write can end: "ok"; "fail" (ensureStorageDir or writeFileSync
\* throws, the file is as before); "torn" (writeFileSync throws after it
\* truncated the file).
Writes == {"ok", "fail", "torn"}

saveVotes_ClearOnFailure(w) ==
  IF ~votesDirty THEN [file |-> votesFile, dirty |-> votesDirty]
  ELSE IF w = "ok" THEN [file |-> JsonFile(Serialize(userVotes)), dirty |-> FALSE]
  ELSE IF w = "torn" THEN [file |-> CorruptFile, dirty |-> FALSE]
  ELSE [file |-> votesFile, dirty |-> FALSE]
\* storage.ts:101-121
saveVotes(w) ==
  IF ~votesDirty THEN [file |-> votesFile, dirty |-> votesDirty]
  ELSE IF w = "ok" THEN [file |-> JsonFile(Serialize(userVotes)), dirty |-> FALSE]
  ELSE IF w = "torn" THEN [file |-> CorruptFile, dirty |-> TRUE]
  ELSE [file |-> votesFile, dirty |-> TRUE]

saveBookmarks_KeepDirty(w) ==
  IF ~bookmarksDirty THEN [file |-> bookmarksFile, dirty |-> bookmarksDirty]
  ELSE IF w = "ok" THEN [file |-> JsonFile(Serialize(userBookmarks)), dirty |-> TRUE]
  ELSE IF w = "torn" THEN [file |-> CorruptFile, dirty |-> TRUE]
  ELSE [file |-> bookmarksFile, dirty |-> TRUE]
\* storage.ts:126-146
saveBookmarks(w) ==
  IF ~bookmarksDirty THEN [file |-> bookmarksFile, dirty |-> bookmarksDirty]
  ELSE IF w = "ok" THEN [file |-> JsonFile(Serialize(userBookmarks)), dirty |-> FALSE]
  ELSE IF w = "torn" THEN [file |-> CorruptFile, dirty |-> TRUE]
  ELSE [file |-> bookmarksFile, dirty |-> TRUE]

\* storage.ts:151-156, 184-189  the Map with an empty Map added for a new user
WithUser(m, userId) ==
  IF userId \in DOMAIN m THEN m ELSE MapSet(m, userId, EmptyMap)

Op(name) == [NoOp EXCEPT !.name = name]

\* storage.ts:259-287 and part_003:139  initStorage at server start.
\* dirOk = FALSE: ensureStorageDir throws, startServer's catch exits.
initStorage(dirOk) ==
  /\ pc = "boot"
  /\ IF dirOk /\ loadVotes.ok /\ loadBookmarks.ok
     THEN /\ pc' = "running"
          /\ userVotes' = loadVotes.map
          /\ userBookmarks' = loadBookmarks.map
     ELSE /\ pc' = "exited"
          /\ UNCHANGED <<userVotes, userBookmarks>>
  /\ lastOp' = [Op("initStorage") EXCEPT !.dir = dirOk]
  /\ UNCHANGED <<votesDirty, bookmarksDirty, votesFile, bookmarksFile, ops,
                 lastSet, lastMark>>
  /\ UNCHANGED outsideLedger

setUserVote_StoreNull(userId, postId, value) ==
  LET votesOfUser == WithUser(userVotes, userId)[userId]
  IN [map |-> MapSet(userVotes, userId, MapSet(votesOfUser, postId, value)),
      dirty |-> TRUE,
      file |-> votesFile]
setUserVote_WriteThrough(userId, postId, value) ==
  LET votesOfUser == WithUser(userVotes, userId)[userId]
      m == MapSet(userVotes, userId,
             IF value = "null" THEN MapDelete(votesOfUser, postId)
             ELSE MapSet(votesOfUser, postId, value))
  IN [map |-> m, dirty |-> FALSE, file |-> JsonFile(Serialize(m))]
\* storage.ts:161-171
setUserVoteEffect(userId, postId, value) ==
  LET votesOfUser == WithUser(userVotes, userId)[userId]
  IN [map |-> MapSet(userVotes, userId,
                IF value = "null" THEN MapDelete(votesOfUser, postId)
                ELSE MapSet(votesOfUser, postId, value)),
      dirty |-> TRUE,
      file |-> votesFile]

setUserVote(userId, postId, value) ==
  /\ pc = "running" /\ ops < MaxOps
  /\ LET e == setUserVoteEffect(userId, postId, value)
     IN /\ userVotes' = e.map
        /\ votesDirty' = e.dirty
        /\ votesFile' = e.file
  /\ lastSet' = [lastSet EXCEPT ![userId][postId] = value]
  /\ ops' = ops + 1
  /\ lastOp' = [Op("setUserVote") EXCEPT !.userId = userId, !.postId = postId]
  /\ UNCHANGED <<pc, userBookmarks, bookmarksDirty, bookmarksFile, lastMark>>
  /\ UNCHANGED outsideLedger

\* storage.ts:176-179  votes.get(postId) || null
getUserVoteResult(m, userId, postId) ==
  IF userId \in DOMAIN m /\ postId \in DOMAIN m[userId] THEN m[userId][postId]
  ELSE "null"

getUserVote(userId, postId) ==
  /\ pc = "running" /\ ops < MaxOps
  /\ userVotes' = WithUser(userVotes, userId)
  /\ ops' = ops + 1
  /\ lastOp' = [Op("getUserVote") EXCEPT !.userId = userId, !.postId = postId,
                  !.result = getUserVoteResult(userVotes, userId, postId)]
  /\ UNCHANGED <<pc, userBookmarks, votesDirty, bookmarksDirty, votesFile,
                 bookmarksFile, lastSet, lastMark>>
  /\ UNCHANGED outsideLedger

\* storage.ts:194-198
addUserBookmark(userId, post) ==
  /\ pc = "running" /\ ops < MaxOps
  /\ userBookmarks' = MapSet(userBookmarks, userId,
        MapSet(WithUser(userBookmarks, userId)[userId], post.id, post))
  /\ bookmarksDirty' = TRUE
  /\ lastMark' = [lastMark EXCEPT ![userId][post.id] = "added"]
  /\ ops' = ops + 1
  /\ lastOp' = [Op("addUserBookmark") EXCEPT !.userId = userId, !.postId = post.id]
  /\ UNCHANGED <<pc, userVotes, votesDirty, votesFile, bookmarksFile, lastSet>>
  /\ UNCHANGED outsideLedger

\* storage.ts:203-210
removeUserBookmark(userId, postId) ==
  /\ pc = "running" /\ ops < MaxOps
  /\ LET bookmarks == WithUser(userBookmarks, userId)[userId]
         existed == postId \in DOMAIN bookmarks
     IN /\ userBookmarks' = MapSet(userBookmarks, userId, MapDelete(bookmarks, postId))
        /\ bookmarksDirty' = (bookmarksDirty \/ existed)
        /\ lastMark' = IF existed THEN [lastMark EXCEPT ![userId][postId] = "removed"]
                       ELSE lastMark
        /\ lastOp' = [Op("removeUserBookmark") EXCEPT !.userId = userId,
                        !.postId = postId,
                        !.result = IF existed THEN "true" ELSE "false"]
  /\ ops' = ops + 1
  /\ UNCHANGED <<pc, userVotes, votesDirty, votesFile, bookmarksFile, lastSet>>
  /\ UNCHANGED outsideLedger

\* storage.ts:215-218
isPostBookmarked(userId, postId) ==
  /\ pc = "running" /\ ops < MaxOps
  /\ userBookmarks' = WithUser(userBookmarks, userId)
  /\ ops' = ops + 1
  /\ lastOp' = [Op("isPostBookmarked") EXCEPT !.userId = userId, !.postId = postId,
                  !.result = IF userId \in DOMAIN userBookmarks
                                /\ postId \in DOMAIN userBookmarks[userId]
                             THEN "true" ELSE "false"]
  /\ UNCHANGED <<pc, userVotes, votesDirty, bookmarksDirty, votesFile,
                 bookmarksFile, lastSet, lastMark>>
  /\ UNCHANGED outsideLedger

saveVotesThrows_Rethrow(w) == votesDirty /\ w # "ok"
\* storage.ts:118-120  the catch of saveVotes: no write error leaves the function
saveVotesThrows(w) == FALSE

\* storage.ts:266-269  the setInterval callback: saveVotes(); saveBookmarks().
\* An error leaving saveVotes would be an uncaught exception of the process.
autoSave(wv, wb) ==
  /\ pc = "running"
  /\ votesFile' = saveVotes(wv).file
  /\ votesDirty' = saveVotes(wv).dirty
  /\ IF saveVotesThrows(wv)
     THEN /\ pc' = "exited"
          /\ UNCHANGED <<bookmarksFile, bookmarksDirty>>
     ELSE /\ bookmarksFile' = saveBookmarks(wb).file
          /\ bookmarksDirty' = saveBookmarks(wb).dirty
          /\ pc' = pc
  /\ lastOp' = [Op("autoSave") EXCEPT !.wv = wv, !.wb = wb]
  /\ UNCHANGED <<userVotes, userBookmarks, ops, lastSet, lastMark>>
  /\ UNCHANGED outsideLedger

\* storage.ts:272-284  SIGINT / SIGTERM: saveVotes(); saveBookmarks(); process.exit(0)
onSignal(wv, wb) ==
  /\ pc = "running"
  /\ votesFile' = saveVotes(wv).file
  /\ votesDirty' = saveVotes(wv).dirty
  /\ IF saveVotesThrows(wv)
     THEN UNCHANGED <<bookmarksFile, bookmarksDirty>>
     ELSE /\ bookmarksFile' = saveBookmarks(wb).file
          /\ bookmarksDirty' = saveBookmarks(wb).dirty
  /\ pc' = "exited"
  /\ lastOp' = [Op("onSignal") EXCEPT !.wv = wv, !.wb = wb]
  /\ UNCHANGED <<userVotes, userBookmarks, ops, lastSet, lastMark>>
  /\ UNCHANGED outsideLedger

\* storage.ts:292-297
flushStorage(wv, wb) ==
  /\ pc = "running" /\ ops < MaxOps
  /\ votesFile' = IF wv = "ok" THEN JsonFile(Serialize(userVotes))
                  ELSE IF wv = "torn" THEN CorruptFile ELSE votesFile
  /\ votesDirty' = (wv # "ok")
  /\ bookmarksFile' = IF wb = "ok" THEN JsonFile(Serialize(userBookmarks))
                      ELSE IF wb = "torn" THEN CorruptFile ELSE bookmarksFile
  /\ bookmarksDirty' = (wb # "ok")
  /\ ops' = ops + 1
  /\ lastOp' = [Op("flushStorage") EXCEPT !.wv = wv, !.wb = wb]
  /\ UNCHANGED <<pc, userVotes, userBookmarks, lastSet, lastMark>>
  /\ UNCHANGED outsideLedger

\* The files a starting server can find.
SampleVotesFiles ==
  {MissingFile, CorruptFile,
   JsonFile([u \in {"u1"} |-> [k \in {"1"} |-> "up"]])}
SampleBookmarksFiles ==
  {MissingFile, CorruptFile,
   JsonFile([u \in {"u2"} |-> [k \in {"2"} |-> SavedPost(Num(2))]])}

\* storage.ts:17-22  the module's initial state; nobody uses the browser
InitLedger ==
  /\ pc = "boot"
  /\ userVotes = EmptyMap
  /\ userBookmarks = EmptyMap
  /\ votesDirty = FALSE
  /\ bookmarksDirty = FALSE
  /\ votesFile \in SampleVotesFiles
  /\ bookmarksFile \in SampleBookmarksFiles
  /\ ops = 0
  /\ lastOp = NoOp
  /\ lastSet = NeverSet
  /\ lastMark = NeverSet
  /\ isAuthenticated = FALSE
  /\ token = FALSE
  /\ logins = 0
  /\ votes = EmptyMap
  /\ scoreAdjustments = EmptyMap
  /\ loadsInFlight = 0
  /\ calls = [i \in Slots |-> NoCall]
  /\ started = 0
  /\ lastReturn = NoReturn
  /\ trace = << >>
  /\ routeUserVotes = EmptyMap
  /\ routeUserBookmarks = EmptyMap
  /\ requests = [i \in ReqSlots |-> NoRequest]
  /\ clock = 0
  /\ redisUrl = FALSE
  /\ redisClient = "null"
  /\ memoryCache = EmptyMap
  /\ remoteStore = EmptyMap
  /\ now = 0
  /\ cacheOps = 0
  /\ lastCacheOp = NoCacheOp
  /\ fellBack = FALSE
  /\ comments = << >>
  /\ commentTree = << >>
  /\ treeBuilt = FALSE
  /\ searchQuery = << >>
  /\ searchOptions = NoOptions
  /\ searchKey = << >>
  /\ bookmarkFlags = << >>
  /\ savedPosts = << >>
  /\ bookmarkLoads = 0
  /\ toggleCalls = [i \in 1..MaxToggles |-> NoToggle]
  /\ toggles = 0
  /\ lastToggle = NoToggle
  /\ feedCache = << >>
  /\ feedPending = NoFeed
  /\ feedResponse = NoFeedResponse
  /\ feedServed = 0
  /\ store = << >>
  /\ limiterNow = 0
  /\ limited = 0
  /\ lastLimited = NoLimited
  /\ windows = << >>

NextLedger ==
  \/ \E d \in BOOLEAN : initStorage(d)
  \/ \E u \in Users, q \in LedgerPosts, v \in VoteTypes \cup {"null"} : setUserVote(u, q, v)
  \/ \E u \in Users, q \in LedgerPosts : getUserVote(u, q)
  \/ \E u \in Users, q \in LedgerPosts : addUserBookmark(u, SavedPost(q))
  \/ \E u \in Users, q \in LedgerPosts : removeUserBookmark(u, q)
  \/ \E u \in Users, q \in LedgerPosts : isPostBookmarked(u, q)
  \/ \E wv \in Writes, wb \in Writes : autoSave(wv, wb)
  \/ \E wv \in Writes, wb \in Writes : onSignal(wv, wb)
  \/ \E wv \in Writes, wb \in Writes : flushStorage(wv, wb)

\* The ledger called with a fractional postId and with the userId "__proto__".
RoundTripUsers == {"u1", "__proto__"}
RoundTripPosts == {Num(1), Num(1) + 1}
NextRoundTrip ==
  \/ \E d \in BOOLEAN : initStorage(d)
  \/ \E u \in RoundTripUsers, q \in RoundTripPosts, v \in VoteTypes :
       setUserVote(u, q, v)
  \/ \E u \in RoundTripUsers, q \in RoundTripPosts : addUserBookmark(u, SavedPost(q))
  \/ \E wv \in Writes, wb \in Writes : flushStorage(wv, wb)

\* ================================================== routes/social.ts
\* The Authorization header of a request: absent, a token that does not
\* decode, or the token of a user.
AuthHeaders == {"missing", "garbage", "u1", "u2"}
RoutePosts == {1, 2}
\* The bodies c.req.json() can give a handler: it throws, the schema rejects
\* the value, or the value passes the schema.
VoteBodies ==
  {[kind |-> k, postId |-> 0, vote |-> ""] : k \in {"unparseable", "invalid"}}
  \cup {[kind |-> "ok", postId |-> q, vote |-> v] :
          q \in RoutePosts, v \in {"up", "down", "none"}}
BookmarkBodies ==
  {[kind |-> k, postId |-> 0, post |-> FALSE] : k \in {"unparseable", "invalid"}}
  \cup {[kind |-> "ok", postId |-> q, post |-> b] : q \in RoutePosts, b \in BOOLEAN}

FirstIdleRequest == CHOOSE i \in ReqSlots :
  /\ requests[i].status = "idle"
  /\ \A j \in ReqSlots : requests[j].status = "idle" => i <= j

Respond(r, response) ==
  [r EXCEPT !.status = "done", !.finished = clock + 1, !.response = response]

\* part_002:292-313, 396-415  the handler up to its await c.req.json()
requestArrives(route, auth) ==
  /\ \E i \in ReqSlots : requests[i].status = "idle"
  /\ LET i == FirstIdleRequest
         r == [NoRequest EXCEPT !.route = route, !.arrived = clock + 1]
     IN requests' = [requests EXCEPT ![i] =
          IF auth \in {"missing", "garbage"}
          THEN Respond(r, [NoResponse EXCEPT !.code = 401])
          ELSE [r EXCEPT !.status = "body", !.userId = auth]]
  /\ clock' = clock + 1
  /\ UNCHANGED <<routeUserVotes, routeUserBookmarks>>
  /\ UNCHANGED outsideRoutes

previousVote_Unread(userId, postId) == Undefined
\* part_002:325-326  votes.get(postId) of getUserVotes(userId)
previousVote(userId, postId) ==
  Lookup(WithUser(routeUserVotes, userId)[userId], postId)

\* part_002:329-343
scoreChange(prev, v) ==
  IF v = "none" THEN (IF prev = "up" THEN -1 ELSE IF prev = "down" THEN 1 ELSE 0)
  ELSE IF v = "up" THEN (IF prev = "down" THEN 2 ELSE IF prev = Undefined THEN 1 ELSE 0)
  ELSE (IF prev = "up" THEN -2 ELSE IF prev = Undefined THEN -1 ELSE 0)

\* part_002:314-351  the rest of POST /vote, run without another await: the
\* body is read, the previous vote is read, the entry is written, the
\* response is built.
postVote(i, body) ==
  /\ requests[i].status = "body" /\ requests[i].route = "vote"
  /\ LET r == requests[i]
         prev == previousVote(r.userId, body.postId)
         votesOfUser == WithUser(routeUserVotes, r.userId)[r.userId]
     IN IF body.kind = "unparseable"
        THEN /\ requests' = [requests EXCEPT ![i] =
                  Respond(r, [NoResponse EXCEPT !.code = 500])]
             /\ UNCHANGED routeUserVotes
        ELSE IF body.kind = "invalid"
        THEN /\ requests' = [requests EXCEPT ![i] =
                  Respond(r, [NoResponse EXCEPT !.code = 400])]
             /\ UNCHANGED routeUserVotes
        ELSE /\ routeUserVotes' = MapSet(routeUserVotes, r.userId,
                  IF body.vote = "none" THEN MapDelete(votesOfUser, body.postId)
                  ELSE MapSet(votesOfUser, body.postId, body.vote))
             /\ requests' = [requests EXCEPT ![i] =
                  Respond([r EXCEPT !.postId = body.postId, !.vote = body.vote],
                          [NoResponse EXCEPT !.code = 200,
                             !.previousVote = IF prev = Undefined THEN "null" ELSE prev,
                             !.vote = IF body.vote = "none" THEN "null" ELSE body.vote,
                             !.scoreChange = scoreChange(prev, body.vote)])]
  /\ clock' = clock + 1
  /\ UNCHANGED routeUserBookmarks
  /\ UNCHANGED outsideRoutes

\* part_002:417-456  the rest of POST /bookmark, run without another await
postBookmark(i, body) ==
  /\ requests[i].status = "body" /\ requests[i].route = "bookmark"
  /\ LET r == requests[i]
         bookmarks == WithUser(routeUserBookmarks, r.userId)[r.userId]
         isCurrentlySaved == body.postId \in DOMAIN bookmarks
         q == [r EXCEPT !.postId = body.postId]
     IN IF body.kind = "unparseable"
        THEN /\ requests' = [requests EXCEPT ![i] =
                  Respond(r, [NoResponse EXCEPT !.code = 500])]
             /\ UNCHANGED routeUserBookmarks
        ELSE IF body.kind = "invalid"
        THEN /\ requests' = [requests EXCEPT ![i] =
                  Respond(r, [NoResponse EXCEPT !.code = 400])]
             /\ UNCHANGED routeUserBookmarks
        ELSE IF isCurrentlySaved
        THEN /\ routeUserBookmarks' = MapSet(routeUserBookmarks, r.userId,
                  MapDelete(bookmarks, body.postId))
             /\ requests' = [requests EXCEPT ![i] =
                  Respond(q, [NoResponse EXCEPT !.code = 200, !.saved = FALSE])]
        ELSE IF ~body.post
        THEN /\ routeUserBookmarks' = WithUser(routeUserBookmarks, r.userId)
             /\ requests' = [requests EXCEPT ![i] =
                  Respond(q, [NoResponse EXCEPT !.code = 400])]
        ELSE /\ routeUserBookmarks' = MapSet(routeUserBookmarks, r.userId,
                  MapSet(bookmarks, body.postId, SavedPost(body.postId)))
             /\ requests' = [requests EXCEPT ![i] =
                  Respond(q, [NoResponse EXCEPT !.code = 200, !.saved = TRUE])]
  /\ clock' = clock + 1
  /\ UNCHANGED routeUserVotes
  /\ UNCHANGED outsideRoutes

\* part_002:37, 62  the maps of a started server; nothing else runs
InitRoutes ==
  /\ routeUserVotes = EmptyMap
  /\ routeUserBookmarks = EmptyMap
  /\ requests = [i \in ReqSlots |-> NoRequest]
  /\ clock = 0
  /\ redisUrl = FALSE
  /\ redisClient = "null"
  /\ memoryCache = EmptyMap
  /\ remoteStore = EmptyMap
  /\ now = 0
  /\ cacheOps = 0
  /\ lastCacheOp = NoCacheOp
  /\ fellBack = FALSE
  /\ comments = << >>
  /\ commentTree = << >>
  /\ treeBuilt = FALSE
  /\ searchQuery = << >>
  /\ searchOptions = NoOptions
  /\ searchKey = << >>
  /\ bookmarkFlags = << >>
  /\ savedPosts = << >>
  /\ bookmarkLoads = 0
  /\ toggleCalls = [i \in 1..MaxToggles |-> NoToggle]
  /\ toggles = 0
  /\ lastToggle = NoToggle
  /\ feedCache = << >>
  /\ feedPending = NoFeed
  /\ feedResponse = NoFeedResponse
  /\ feedServed = 0
  /\ store = << >>
  /\ limiterNow = 0
  /\ limited = 0
  /\ lastLimited = NoLimited
  /\ windows = << >>
  /\ isAuthenticated = FALSE
  /\ token = FALSE
  /\ logins = 0
  /\ votes = EmptyMap
  /\ scoreAdjustments = EmptyMap
  /\ loadsInFlight = 0
  /\ calls = [i \in Slots |-> NoCall]
  /\ started = 0
  /\ lastReturn = NoReturn
  /\ trace = << >>
  /\ pc = "boot"
  /\ userVotes = EmptyMap
  /\ userBookmarks = EmptyMap
  /\ votesDirty = FALSE
  /\ bookmarksDirty = FALSE
  /\ votesFile = MissingFile
  /\ bookmarksFile = MissingFile
  /\ ops = 0
  /\ lastOp = NoOp
  /\ lastSet = NeverSet
  /\ lastMark = NeverSet

NextRoutes ==
  \/ \E route \in {"vote", "bookmark"}, auth \in AuthHeaders : requestArrives(route, auth)
  \/ \E i \in ReqSlots, body \in VoteBodies : postVote(i, body)
  \/ \E i \in ReqSlots, body \in BookmarkBodies : postBookmark(i, body)


\* ===================================================== cache service
\* How many cache functions are called, and how often the clock advances.
MaxCacheOps == 3
MaxTicks == 2

\* A string is the sequence of its parts; "*" is the wildcard character.
CacheKeys == {<<"communities:", "list">>, <<"communities:">>,
              <<"search:", "communities:">>}
CachePatterns == {<<"communities:", "*">>, <<"communities:">>,
                  <<"*", "communities:", "*">>}
\* The values handed to cacheSet: a response object, and an object that
\* JSON.stringify rejects (it refers to itself).
CacheValues == {"response", "cyclic"}
\* storage.ts:308-313  CACHE_TTL, in seconds (scaled down)
CacheTtls == {1, 2}
\* What the connection attempt of getRedisClient and a command sent to the
\* Redis server can end in.
ConnectOutcomes == {"ok", "refused"}
NetOutcomes == {"ok", "error"}

prefixed_Bare(key) == key
\* storage.ts:347, 381, 411, 431  `presocial:${key}`
prefixed(key) == <<"presocial:">> \o key

startsWith(str, prefix) ==
  Len(prefix) <= Len(str) /\ SubSeq(str, 1, Len(prefix)) = prefix

\* storage.ts:446  String.prototype.replace('*', ''): the first "*" is removed
replaceStar(str) ==
  IF \E i \in 1..Len(str) : str[i] = "*"
  THEN LET i == CHOOSE j \in 1..Len(str) :
                  str[j] = "*" /\ \A l \in 1..(j - 1) : str[l] # "*"
       IN SubSeq(str, 1, i - 1) \o SubSeq(str, i + 1, Len(str))
  ELSE str

\* storage.ts:437  redis.keys(pattern): the glob match of the Redis server,
\* "*" stands for any run of characters
RECURSIVE globMatch(_, _)
globMatch(pattern, str) ==
  IF pattern = << >> THEN str = << >>
  ELSE IF Head(pattern) = "*"
       THEN \/ globMatch(Tail(pattern), str)
            \/ str # << >> /\ globMatch(pattern, Tail(str))
       ELSE /\ str # << >>
            /\ Head(str) = Head(pattern)
            /\ globMatch(Tail(pattern), Tail(str))

\* storage.ts:387  JSON.stringify(value): the text, or an exception
CanStringify(value) == value # "cyclic"
Stringify(value) == [kind |-> "json", of |-> value]
\* storage.ts:355  JSON.parse(data): the value, or an exception
CanParse(text) == text.kind = "json"
JsonParse(text) == text.of
CorruptText == [kind |-> "corrupt", of |-> ""]

isExpired_AtBoundary(entry, t) == t >= entry.timestamp + entry.ttl * 1000
\* storage.ts:365, 484  Date.now() > entry.timestamp + entry.ttl * 1000
isExpired(entry, t) == t > entry.timestamp + entry.ttl * 1000

\* The keys the Redis server still holds at time t (SETEX expiry).
LiveKeys(held, t) == {k \in DOMAIN held : t < held[k].expiresAt}

\* storage.ts:399  memoryCache.size > 1000: the size above which a set sweeps
\* (scaled down)
HighWater == 2

cleanupMemoryCache_All(m) == EmptyMap
\* storage.ts:481-488
cleanupMemoryCache(m) ==
  [k \in {x \in DOMAIN m : ~isExpired(m[x], now)} |-> m[k]]

\* storage.ts:318-341  getRedisClient: whether a client is returned, the
\* value of redisClient afterwards, whether a connection was attempted.
\* new Redis(...) is assigned to redisClient (329) before connect() (334).
getRedisClient(connect) ==
  IF redisClient = "client"
  THEN [redis |-> TRUE, client |-> "client", attempt |-> FALSE]
  ELSE IF ~redisUrl
  THEN [redis |-> FALSE, client |-> "null", attempt |-> FALSE]
  ELSE IF connect = "ok"
  THEN [redis |-> TRUE, client |-> "client", attempt |-> TRUE]
  ELSE [redis |-> FALSE, client |-> "client", attempt |-> TRUE]

propagates_ParseError(failure) == failure = "parse"
\* storage.ts:371-374, 402-404, 422-424, 450-452  the catch of each function:
\* no failure inside the try leaves the function
propagates(failure) == FALSE

CacheOp(name, key, g) ==
  [NoCacheOp EXCEPT !.name = name, !.key = key, !.at = now,
     !.backend = IF g.redis THEN "remote" ELSE "memory",
     !.backendKey = prefixed(key), !.attempt = g.attempt]
Failed(op, failure) ==
  [op EXCEPT !.caught = TRUE, !.threw = propagates(failure),
     !.result = IF propagates(failure) THEN "" ELSE "null"]

\* storage.ts:346-375
cacheGet(key, connect, net) ==
  /\ cacheOps < MaxCacheOps
  /\ LET g == getRedisClient(connect)
         pk == prefixed(key)
         op == CacheOp("get", key, g)
     IN /\ redisClient' = g.client
        /\ fellBack' = (fellBack \/ ~g.redis)
        /\ IF g.redis
           THEN /\ lastCacheOp' =
                     IF net = "error" THEN Failed(op, "network")
                     ELSE IF pk \in LiveKeys(remoteStore, now)
                     THEN IF CanParse(remoteStore[pk].text)
                          THEN [op EXCEPT !.result = JsonParse(remoteStore[pk].text)]
                          ELSE Failed(op, "parse")
                     ELSE [op EXCEPT !.result = "null"]
                /\ UNCHANGED memoryCache
           ELSE IF pk \notin DOMAIN memoryCache
           THEN /\ lastCacheOp' = [op EXCEPT !.result = "null"]
                /\ UNCHANGED memoryCache
           ELSE IF isExpired(memoryCache[pk], now)
           THEN /\ memoryCache' = MapDelete(memoryCache, pk)
                /\ lastCacheOp' = [op EXCEPT !.result = "null"]
           ELSE /\ lastCacheOp' = [op EXCEPT !.result = memoryCache[pk].data]
                /\ UNCHANGED memoryCache
  /\ cacheOps' = cacheOps + 1
  /\ UNCHANGED <<redisUrl, remoteStore, now>>
  /\ UNCHANGED outsideCache

\* storage.ts:380-405
cacheSet(key, value, ttlSeconds, connect, net) ==
  /\ cacheOps < MaxCacheOps
  /\ LET g == getRedisClient(connect)
         pk == prefixed(key)
         op == [CacheOp("set", key, g) EXCEPT !.value = value, !.ttl = ttlSeconds]
         stored == MapSet(memoryCache, pk,
                     [data |-> value, timestamp |-> now, ttl |-> ttlSeconds])
     IN /\ redisClient' = g.client
        /\ fellBack' = (fellBack \/ ~g.redis)
        /\ IF g.redis
           THEN /\ IF ~CanStringify(value)
                   THEN /\ lastCacheOp' = Failed(op, "serialize")
                        /\ UNCHANGED remoteStore
                   ELSE IF net = "error"
                   THEN /\ lastCacheOp' = Failed(op, "network")
                        /\ UNCHANGED remoteStore
                   ELSE /\ lastCacheOp' = op
                        /\ remoteStore' = MapSet(remoteStore, pk,
                             [text |-> Stringify(value),
                              expiresAt |-> now + ttlSeconds * 1000])
                /\ UNCHANGED memoryCache
           ELSE /\ memoryCache' = IF Cardinality(DOMAIN stored) > HighWater
                                  THEN cleanupMemoryCache(stored) ELSE stored
                /\ lastCacheOp' =
                     [op EXCEPT !.swept = Cardinality(DOMAIN stored) > HighWater]
                /\ UNCHANGED remoteStore
  /\ cacheOps' = cacheOps + 1
  /\ UNCHANGED <<redisUrl, now>>
  /\ UNCHANGED outsideCache

\* storage.ts:410-425
cacheDelete(key, connect, net) ==
  /\ cacheOps < MaxCacheOps
  /\ LET g == getRedisClient(connect)
         pk == prefixed(key)
         op == CacheOp("delete", key, g)
     IN /\ redisClient' = g.client
        /\ fellBack' = (fellBack \/ ~g.redis)
        /\ IF g.redis
           THEN /\ IF net = "error"
                   THEN /\ lastCacheOp' = Failed(op, "network")
                        /\ UNCHANGED remoteStore
                   ELSE /\ lastCacheOp' = op
                        /\ remoteStore' = MapDelete(remoteStore, pk)
                /\ UNCHANGED memoryCache
           ELSE /\ memoryCache' = MapDelete(memoryCache, pk)
                /\ lastCacheOp' = op
                /\ UNCHANGED remoteStore
  /\ cacheOps' = cacheOps + 1
  /\ UNCHANGED <<redisUrl, now>>
  /\ UNCHANGED outsideCache

\* storage.ts:436-441  the keys the Redis branch deletes
remoteMatches(prefixedPattern) ==
  {k \in LiveKeys(remoteStore, now) : globMatch(prefixedPattern, k)}
\* storage.ts:445-449  the keys the memory branch deletes
memoryMatches(prefixedPattern) ==
  {k \in DOMAIN memoryCache : startsWith(k, replaceStar(prefixedPattern))}

\* storage.ts:430-453
cacheInvalidate(pattern, connect, net) ==
  /\ cacheOps < MaxCacheOps
  /\ LET g == getRedisClient(connect)
         prefixedPattern == prefixed(pattern)
         op == CacheOp("invalidate", pattern, g)
     IN /\ redisClient' = g.client
        /\ fellBack' = (fellBack \/ ~g.redis)
        /\ IF g.redis
           THEN /\ IF net = "error"
                   THEN /\ lastCacheOp' = Failed(op, "network")
                        /\ UNCHANGED remoteStore
                   ELSE /\ lastCacheOp' = op
                        /\ remoteStore' =
                             [k \in DOMAIN remoteStore \ remoteMatches(prefixedPattern)
                                |-> remoteStore[k]]
                /\ UNCHANGED memoryCache
           ELSE /\ memoryCache' =
                     [k \in DOMAIN memoryCache \ memoryMatches(prefixedPattern)
                        |-> memoryCache[k]]
                /\ lastCacheOp' = op
                /\ UNCHANGED remoteStore
  /\ cacheOps' = cacheOps + 1
  /\ UNCHANGED <<redisUrl, now>>
  /\ UNCHANGED outsideCache

\* Date.now() moves on by a second.
Tick ==
  /\ now < MaxTicks * 1000
  /\ now' = now + 1000
  /\ UNCHANGED <<redisUrl, redisClient, memoryCache, remoteStore, cacheOps,
                 lastCacheOp, fellBack>>
  /\ UNCHANGED outsideCache

\* What the Redis server holds when the process starts: a key of another
\* service, and possibly a key of this one whose text is not JSON.
ForeignKey == <<"other:", "communities:", "list">>
ForeignEntry == [text |-> Stringify("response"), expiresAt |-> 1000000]
SampleRemoteStores ==
  {[k \in {ForeignKey} |-> ForeignEntry],
   [k \in {ForeignKey, prefixed(<<"communities:">>)} |->
      IF k = ForeignKey THEN ForeignEntry
      ELSE [text |-> CorruptText, expiresAt |-> 1000000]]}

\* storage.ts:305, 316  the cache module when it is loaded
InitCache ==
  /\ redisUrl \in BOOLEAN
  /\ redisClient = "null"
  /\ memoryCache = EmptyMap
  /\ remoteStore \in SampleRemoteStores
  /\ now = 0
  /\ cacheOps = 0
  /\ lastCacheOp = NoCacheOp
  /\ fellBack = FALSE
  /\ comments = << >>
  /\ commentTree = << >>
  /\ treeBuilt = FALSE
  /\ searchQuery = << >>
  /\ searchOptions = NoOptions
  /\ searchKey = << >>
  /\ bookmarkFlags = << >>
  /\ savedPosts = << >>
  /\ bookmarkLoads = 0
  /\ toggleCalls = [i \in 1..MaxToggles |-> NoToggle]
  /\ toggles = 0
  /\ lastToggle = NoToggle
  /\ feedCache = << >>
  /\ feedPending = NoFeed
  /\ feedResponse = NoFeedResponse
  /\ feedServed = 0
  /\ store = << >>
  /\ limiterNow = 0
  /\ limited = 0
  /\ lastLimited = NoLimited
  /\ windows = << >>
  /\ routeUserVotes = EmptyMap
  /\ routeUserBookmarks = EmptyMap
  /\ requests = [i \in ReqSlots |-> NoRequest]
  /\ clock = 0
  /\ isAuthenticated = FALSE
  /\ token = FALSE
  /\ logins = 0
  /\ votes = EmptyMap
  /\ scoreAdjustments = EmptyMap
  /\ loadsInFlight = 0
  /\ calls = [i \in Slots |-> NoCall]
  /\ started = 0
  /\ lastReturn = NoReturn
  /\ trace = << >>
  /\ pc = "boot"
  /\ userVotes = EmptyMap
  /\ userBookmarks = EmptyMap
  /\ votesDirty = FALSE
  /\ bookmarksDirty = FALSE
  /\ votesFile = MissingFile
  /\ bookmarksFile = MissingFile
  /\ ops = 0
  /\ lastOp = NoOp
  /\ lastSet = NeverSet
  /\ lastMark = NeverSet

NextCache ==
  \/ \E key \in CacheKeys, connect \in ConnectOutcomes, net \in NetOutcomes :
       cacheGet(key, connect, net)
  \/ \E key \in CacheKeys, value \in CacheValues, ttlSeconds \in CacheTtls,
        connect \in ConnectOutcomes, net \in NetOutcomes :
       cacheSet(key, value, ttlSeconds, connect, net)
  \/ \E key \in CacheKeys, connect \in ConnectOutcomes, net \in NetOutcomes :
       cacheDelete(key, connect, net)
  \/ \E pattern \in CachePatterns, connect \in ConnectOutcomes, net \in NetOutcomes :
       cacheInvalidate(pattern, connect, net)
  \/ Tick


\* ========================================= PostPage: buildCommentTree
\* How many comments the flat list holds at most.
MaxComments == 3
CommentIds == 1..MaxComments
\* lemmy.ts:300  the id before the last of the path: 0 for a top-level
\* comment ("0.5"), the id of a comment of the list, or of one that is not
\* in the list (9).
ParentIds == {0, 9} \cup CommentIds
Scores == {1, 2}
Depths == {1, 2}
SocialComment ==
  [id : CommentIds, parentId : ParentIds, score : Scores, depth : Depths]
\* The lists of comments with distinct ids, in every order.
FlatLists ==
  UNION {{f \in [1..n -> SocialComment] :
            \A i, j \in 1..n : i # j => f[i].id # f[j].id} : n \in 0..MaxComments}

\* lemmy.ts:287-303  transformComment: the comment of a Lemmy path such as
\* "0.7.5" (the ids of the ancestors after the leading 0, then its own id)
transformComment(path, score) ==
  [id |-> path[Len(path)],
   parentId |-> IF Len(path) > 1 THEN path[Len(path) - 1] ELSE 0,
   score |-> score,
   depth |-> Len(path) - 1]
\* The paths of a top-level comment and of a reply to the comment p.
CommentPaths ==
  {<<0, id>> : id \in CommentIds}
  \cup {<<0, q, id>> : q \in ParentIds \ {0}, id \in CommentIds}

\* part_008:280-282  commentMap.has(id)
InList(flat, id) == \E i \in 1..Len(flat) : flat[i].id = id

attached_DropOrphans(flat, c) == c.parentId # 0
\* part_008:290  comment.parentId && commentMap.has(comment.parentId)
attached(flat, c) == c.parentId # 0 /\ InList(flat, c.parentId)

\* part_008:287-301  the replies array of the comment id, in push order
repliesOf(flat, id) ==
  LET isReply(c) == attached(flat, c) /\ c.parentId = id
  IN SelectSeq(flat, isReply)
\* part_008:284, 294-300  rootComments, in push order
rootsOf(flat) ==
  LET isRoot(c) == ~attached(flat, c)
  IN SelectSeq(flat, isRoot)

RECURSIVE sortByScore_LastOfTies(_)
sortByScore_LastOfTies(list) ==
  IF list = << >> THEN << >>
  ELSE LET best == CHOOSE i \in 1..Len(list) :
                     /\ \A j \in 1..Len(list) : list[j].score <= list[i].score
                     /\ \A j \in (i + 1)..Len(list) : list[j].score < list[i].score
       IN <<list[best]>>
          \o sortByScore_LastOfTies(SubSeq(list, 1, best - 1)
                                     \o SubSeq(list, best + 1, Len(list)))
sortByScore_PushOrder(list) == list
\* part_008:304-305  Array.prototype.sort((a, b) => b.score - a.score): stable
RECURSIVE sortByScore(_)
sortByScore(list) ==
  IF list = << >> THEN << >>
  ELSE LET best == CHOOSE i \in 1..Len(list) :
                     /\ \A j \in 1..Len(list) : list[j].score <= list[i].score
                     /\ \A j \in 1..(i - 1) : list[j].score < list[i].score
       IN <<list[best]>>
          \o sortByScore(SubSeq(list, 1, best - 1) \o SubSeq(list, best + 1, Len(list)))

\* part_008:281, 293, 308-316  { ...comment, replies } with its replies sorted
RECURSIVE nodeOf(_, _)
nodeOf(flat, c) ==
  LET sorted == sortByScore(repliesOf(flat, c.id))
  IN [id |-> c.id, parentId |-> c.parentId, score |-> c.score, depth |-> c.depth,
      replies |-> [i \in 1..Len(sorted) |-> nodeOf(flat, sorted[i])]]

\* part_008:274-319
buildCommentTree(flatComments) ==
  IF Len(flatComments) = 0 THEN << >>
  ELSE LET sorted == sortByScore(rootsOf(flatComments))
       IN [i \in 1..Len(sorted) |-> nodeOf(flatComments, sorted[i])]

\* part_008:327  const commentTree = useMemo(() => buildCommentTree(comments))
renderCommentTree ==
  /\ ~treeBuilt
  /\ commentTree' = buildCommentTree(comments)
  /\ treeBuilt' = TRUE
  /\ UNCHANGED comments
  /\ UNCHANGED outsideTree

\* part_008:324, 327  PostPage with the comments of a post loaded
InitTree ==
  /\ comments \in FlatLists
  /\ commentTree = << >>
  /\ treeBuilt = FALSE
  /\ searchQuery = << >>
  /\ searchOptions = NoOptions
  /\ searchKey = << >>
  /\ bookmarkFlags = << >>
  /\ savedPosts = << >>
  /\ bookmarkLoads = 0
  /\ toggleCalls = [i \in 1..MaxToggles |-> NoToggle]
  /\ toggles = 0
  /\ lastToggle = NoToggle
  /\ feedCache = << >>
  /\ feedPending = NoFeed
  /\ feedResponse = NoFeedResponse
  /\ feedServed = 0
  /\ store = << >>
  /\ limiterNow = 0
  /\ limited = 0
  /\ lastLimited = NoLimited
  /\ windows = << >>
  /\ redisUrl = FALSE
  /\ redisClient = "null"
  /\ memoryCache = EmptyMap
  /\ remoteStore = EmptyMap
  /\ now = 0
  /\ cacheOps = 0
  /\ lastCacheOp = NoCacheOp
  /\ fellBack = FALSE
  /\ routeUserVotes = EmptyMap
  /\ routeUserBookmarks = EmptyMap
  /\ requests = [i \in ReqSlots |-> NoRequest]
  /\ clock = 0
  /\ isAuthenticated = FALSE
  /\ token = FALSE
  /\ logins = 0
  /\ votes = EmptyMap
  /\ scoreAdjustments = EmptyMap
  /\ loadsInFlight = 0
  /\ calls = [i \in Slots |-> NoCall]
  /\ started = 0
  /\ lastReturn = NoReturn
  /\ trace = << >>
  /\ pc = "boot"
  /\ userVotes = EmptyMap
  /\ userBookmarks = EmptyMap
  /\ votesDirty = FALSE
  /\ bookmarksDirty = FALSE
  /\ votesFile = MissingFile
  /\ bookmarksFile = MissingFile
  /\ ops = 0
  /\ lastOp = NoOp
  /\ lastSet = NeverSet
  /\ lastMark = NeverSet

NextTree == renderCommentTree

\* ========================================= cache service: generateSearchKey
\* A string is the sequence of its characters.
\* How long a query text is at most.
MaxQueryLen == 4
QueryChars == {"a", "A", "b", " ", "\t"}
Whitespace == {" ", "\t"}
Queries == UNION {[1..n -> QueryChars] : n \in 0..MaxQueryLen}
\* The fields an options object may carry and their values.
limit == <<"l", "i", "m", "i", "t">>
page == <<"p", "a", "g", "e">>
OptionFields == {limit, page}
OptionValues == {1, 2}
\* An options object: its field/value pairs in the order of insertion.
OptionEntries ==
  {<< >>}
  \cup {<<<<f, v>>>> : f \in OptionFields, v \in OptionValues}
  \cup {<<<<f, v>>, <<g, w>>>> : <<f, g>> \in {<<limit, page>>, <<page, limit>>},
                                 v \in OptionValues, w \in OptionValues}
SearchOptions ==
  {NoOptions} \cup {[given |-> TRUE, entries |-> e] : e \in OptionEntries}

\* String.prototype.charCodeAt for the characters in use.
charCodeAt(c) ==
  CASE c = "\t" -> 9   [] c = " " -> 32   [] c = "\"" -> 34  [] c = "," -> 44
    [] c = "1" -> 49   [] c = "2" -> 50   [] c = ":" -> 58
    [] c = "A" -> 65   [] c = "B" -> 66
    [] c = "a" -> 97   [] c = "b" -> 98   [] c = "e" -> 101  [] c = "g" -> 103
    [] c = "i" -> 105  [] c = "l" -> 108  [] c = "m" -> 109  [] c = "p" -> 112
    [] c = "t" -> 116  [] c = "{" -> 123  [] c = "}" -> 125

\* storage.ts:459  query.toLowerCase()
toLowerCase(str) ==
  [i \in 1..Len(str) |-> CASE str[i] = "A" -> "a" [] str[i] = "B" -> "b"
                           [] OTHER -> str[i]]
\* storage.ts:459  .trim()
RECURSIVE trimStart(_)
trimStart(str) ==
  IF str # << >> /\ Head(str) \in Whitespace THEN trimStart(Tail(str)) ELSE str
RECURSIVE trimEnd(_)
trimEnd(str) ==
  IF str # << >> /\ str[Len(str)] \in Whitespace
  THEN trimEnd(SubSeq(str, 1, Len(str) - 1)) ELSE str
trim(str) == trimEnd(trimStart(str))
\* storage.ts:459  .replace(/\s+/g, ' ')
RECURSIVE collapseRuns(_)
collapseRuns(str) ==
  IF str = << >> THEN << >>
  ELSE IF Head(str) \in Whitespace
       THEN <<" ">> \o collapseRuns(trimStart(str))
       ELSE <<Head(str)>> \o collapseRuns(Tail(str))
normalizedQuery_CaseKept(query) == collapseRuns(trim(query))
\* storage.ts:459
normalizedQuery(query) == collapseRuns(trim(toLowerCase(query)))

\* JSON.stringify of a number 1..9
digit(v) == IF v = 1 THEN <<"1">> ELSE <<"2">>
\* JSON.stringify of an object: "key":value pairs in insertion order
RECURSIVE members(_)
members(entries) ==
  IF entries = << >> THEN << >>
  ELSE <<"\"">> \o entries[1][1] \o <<"\"", ":">> \o digit(entries[1][2])
       \o (IF Len(entries) > 1 THEN <<",">> ELSE << >>)
       \o members(Tail(entries))
JSONstringify(entries) == <<"{">> \o members(entries) \o <<"}">>
\* storage.ts:460  options ? JSON.stringify(options) : ''
optionsStr(options) ==
  IF options.given THEN JSONstringify(options.entries) ELSE << >>

\* A 32-bit integer is kept as its two 16-bit halves <<high, low>>.
Half == 65536
\* storage.ts:472-473  ((hash << 5) - hash) + char, cut to 32 bits by hash & hash
step(hash, char) ==
  LET low == hash[2] * 31 + char
  IN <<(hash[1] * 31 + (low \div Half)) % Half, low % Half>>
RECURSIVE fold(_, _)
fold(hash, str) ==
  IF str = << >> THEN hash
  ELSE fold(step(hash, charCodeAt(Head(str))), Tail(str))
\* storage.ts:475  Math.abs(hash): a set sign bit means a negative number
abs(hash) ==
  IF hash[1] < Half \div 2 THEN hash
  ELSE IF hash[2] = 0 THEN <<Half - hash[1], 0>>
       ELSE <<Half - 1 - hash[1], Half - hash[2]>>
Digits36 ==
  <<"0", "1", "2", "3", "4", "5", "6", "7", "8", "9", "a", "b", "c", "d", "e",
    "f", "g", "h", "i", "j", "k", "l", "m", "n", "o", "p", "q", "r", "s", "t",
    "u", "v", "w", "x", "y", "z">>
\* storage.ts:475  Number.prototype.toString(36) by long division
RECURSIVE toString36(_)
toString36(n) ==
  LET rest == (n[1] % 36) * Half + n[2]
      quotient == <<n[1] \div 36, rest \div 36>>
      last == <<Digits36[(rest % 36) + 1]>>
  IN IF quotient = <<0, 0>> THEN last ELSE toString36(quotient) \o last
\* storage.ts:468-476
simpleHash(str) == toString36(abs(fold(<<0, 0>>, str)))

\* storage.ts:458-463
generateSearchKey(query, options) ==
  <<"s", "e", "a", "r", "c", "h", ":">>
  \o simpleHash(normalizedQuery(query) \o <<":">> \o optionsStr(options))

\* part_002:109  const cacheKey = generateSearchKey(q, {...})
searchKeyComputed ==
  /\ Len(searchKey) = 0
  /\ searchKey' = generateSearchKey(searchQuery, searchOptions)
  /\ UNCHANGED <<searchQuery, searchOptions>>
  /\ UNCHANGED outsideKey

\* part_002:106  the query and the options of a search request
InitKey ==
  /\ searchQuery \in Queries
  /\ searchOptions \in SearchOptions
  /\ searchKey = << >>
  /\ bookmarkFlags = << >>
  /\ savedPosts = << >>
  /\ bookmarkLoads = 0
  /\ toggleCalls = [i \in 1..MaxToggles |-> NoToggle]
  /\ toggles = 0
  /\ lastToggle = NoToggle
  /\ feedCache = << >>
  /\ feedPending = NoFeed
  /\ feedResponse = NoFeedResponse
  /\ feedServed = 0
  /\ store = << >>
  /\ limiterNow = 0
  /\ limited = 0
  /\ lastLimited = NoLimited
  /\ windows = << >>
  /\ comments = << >>
  /\ commentTree = << >>
  /\ treeBuilt = FALSE
  /\ redisUrl = FALSE
  /\ redisClient = "null"
  /\ memoryCache = EmptyMap
  /\ remoteStore = EmptyMap
  /\ now = 0
  /\ cacheOps = 0
  /\ lastCacheOp = NoCacheOp
  /\ fellBack = FALSE
  /\ routeUserVotes = EmptyMap
  /\ routeUserBookmarks = EmptyMap
  /\ requests = [i \in ReqSlots |-> NoRequest]
  /\ clock = 0
  /\ isAuthenticated = FALSE
  /\ token = FALSE
  /\ logins = 0
  /\ votes = EmptyMap
  /\ scoreAdjustments = EmptyMap
  /\ loadsInFlight = 0
  /\ calls = [i \in Slots |-> NoCall]
  /\ started = 0
  /\ lastReturn = NoReturn
  /\ trace = << >>
  /\ pc = "boot"
  /\ userVotes = EmptyMap
  /\ userBookmarks = EmptyMap
  /\ votesDirty = FALSE
  /\ bookmarksDirty = FALSE
  /\ votesFile = MissingFile
  /\ bookmarksFile = MissingFile
  /\ ops = 0
  /\ lastOp = NoOp
  /\ lastSet = NeverSet
  /\ lastMark = NeverSet

NextKey == searchKeyComputed


\* ===================================================== BookmarkProvider
ToggleSlots == 1..MaxToggles
PendingToggles == {i \in ToggleSlots : toggleCalls[i].kind = "pending"}
FirstIdleToggle ==
  CHOOSE i \in ToggleSlots \ PendingToggles :
    \A j \in ToggleSlots \ PendingToggles : i <= j
\* AuthContext.jsx:248-251  { ...post, savedAt: new Date().toISOString() }: the
\* time of the n-th toggleBookmark() call is n; 0 for a snapshot of the server
snapshot(postId, savedAt) == [id |-> postId, savedAt |-> savedAt]
\* AuthContext.jsx:209-215  data.bookmarks of GET /bookmarks
ServerBookmarks ==
  {<< >>, <<snapshot(1, 0)>>, <<snapshot(2, 0), snapshot(1, 0)>>}
\* AuthContext.jsx:210-213  bookmarkMap[post.id] = true for each post
bookmarkMap(list) == [x \in {list[i].id : i \in 1..Len(list)} |-> TRUE]
filterOut_Nothing(prev, postId) == prev
\* AuthContext.jsx:245  prev.filter(p => p.id !== postId)
RECURSIVE filterOut(_, _)
filterOut(prev, postId) ==
  IF prev = << >> THEN << >>
  ELSE (IF Head(prev).id # postId THEN <<Head(prev)>> ELSE << >>)
       \o filterOut(Tail(prev), postId)
prepend_AtEnd(post, prev) == prev \o <<post>>
\* AuthContext.jsx:248-251  prev => [{...post, savedAt}, ...prev]
prepend(post, prev) == <<post>> \o prev

\* AuthContext.jsx:225-232  the two early returns of toggleBookmark()
toggleRejected(postId) ==
  /\ ~isAuthenticated \/ ~token
  /\ lastToggle' = [NoToggle EXCEPT !.kind = "rejected", !.postId = postId,
                      !.error = IF ~isAuthenticated
                                THEN "Please sign in to save posts"
                                ELSE "Authentication required"]
  /\ UNCHANGED <<bookmarkFlags, savedPosts, bookmarkLoads, toggleCalls, toggles>>
  /\ UNCHANGED <<isAuthenticated, token, logins>>
  /\ UNCHANGED outsideBookmark

\* AuthContext.jsx:234-255  toggleBookmark() up to the await of fetch
toggleBookmark(postId) ==
  /\ toggles < MaxToggles
  /\ isAuthenticated /\ token
  /\ LET isCurrentlySaved == postId \in DOMAIN bookmarkFlags
         call == [NoToggle EXCEPT !.kind = "pending", !.postId = postId,
                    !.isCurrentlySaved = isCurrentlySaved,
                    !.previousBookmarks = bookmarkFlags,
                    !.previousSavedPosts = savedPosts]
     IN /\ IF isCurrentlySaved
           THEN /\ bookmarkFlags' = MapDelete(bookmarkFlags, postId)
                /\ savedPosts' = filterOut(savedPosts, postId)
           ELSE /\ bookmarkFlags' = MapSet(bookmarkFlags, postId, TRUE)
                /\ savedPosts' = prepend(snapshot(postId, toggles + 1), savedPosts)
        /\ toggleCalls' = [toggleCalls EXCEPT ![FirstIdleToggle] = call]
        /\ lastToggle' = [call EXCEPT !.kind = "toggle"]
  /\ toggles' = toggles + 1
  /\ UNCHANGED bookmarkLoads
  /\ UNCHANGED <<isAuthenticated, token, logins>>
  /\ UNCHANGED outsideBookmark

\* AuthContext.jsx:278,286  response.ok: return { success: true, saved }
bookmarkConfirmed(i) ==
  /\ i \in PendingToggles
  /\ toggleCalls' = [toggleCalls EXCEPT ![i] = NoToggle]
  /\ lastToggle' = [toggleCalls[i] EXCEPT !.kind = "ok", !.success = TRUE,
                      !.saved = ~toggleCalls[i].isCurrentlySaved]
  /\ UNCHANGED <<bookmarkFlags, savedPosts, bookmarkLoads, toggles>>
  /\ UNCHANGED <<isAuthenticated, token, logins>>
  /\ UNCHANGED outsideBookmark

\* AuthContext.jsx:283,291  the error of the returned result; the failures
\* are those of vote(): a non-OK response with or without an error field or
\* with a body that is not JSON, and a rejected fetch
ToggleFailureMessage(f) ==
  CASE f = "error" -> "Post data required to save"
    [] f = "noerror" -> "Failed to save post"
    [] OTHER -> "Network error"
RevertSavedPosts_Keep(c) == savedPosts
\* AuthContext.jsx:280,289  setBookmarks(previousBookmarks)
RevertBookmarks(c) == c.previousBookmarks
\* AuthContext.jsx:281,290  setSavedPosts(previousSavedPosts)
RevertSavedPosts(c) == c.previousSavedPosts

\* AuthContext.jsx:278-292  the failure paths of toggleBookmark()
bookmarkFailed(i, f) ==
  /\ i \in PendingToggles
  /\ bookmarkFlags' = RevertBookmarks(toggleCalls[i])
  /\ savedPosts' = RevertSavedPosts(toggleCalls[i])
  /\ toggleCalls' = [toggleCalls EXCEPT ![i] = NoToggle]
  /\ lastToggle' = [toggleCalls[i] EXCEPT !.kind = "failed", !.success = FALSE,
                      !.error = ToggleFailureMessage(f)]
  /\ UNCHANGED <<bookmarkLoads, toggles>>
  /\ UNCHANGED <<isAuthenticated, token, logins>>
  /\ UNCHANGED outsideBookmark

\* AuthProvider setUser(user), then the effect AuthContext.jsx:190-192 starts
\* loadUserBookmarks
signedIn ==
  /\ ~isAuthenticated /\ token
  /\ logins < MaxLogins
  /\ isAuthenticated' = TRUE
  /\ logins' = logins + 1
  /\ bookmarkLoads' = bookmarkLoads + 1
  /\ lastToggle' = NoToggle
  /\ UNCHANGED <<bookmarkFlags, savedPosts, toggleCalls, toggles, token>>
  /\ UNCHANGED outsideBookmark

\* AuthProvider setUser(null), then the effect AuthContext.jsx:193-196
signedOut ==
  /\ isAuthenticated /\ ~token
  /\ isAuthenticated' = FALSE
  /\ bookmarkFlags' = << >>
  /\ savedPosts' = << >>
  /\ lastToggle' = NoToggle
  /\ UNCHANGED <<bookmarkLoads, toggleCalls, toggles, token, logins>>
  /\ UNCHANGED outsideBookmark

\* AuthContext.jsx:208-216  loadUserBookmarks: response.ok
loadUserBookmarksOk(list) ==
  /\ bookmarkLoads > 0
  /\ bookmarkLoads' = bookmarkLoads - 1
  /\ bookmarkFlags' = bookmarkMap(list)
  /\ savedPosts' = list
  /\ lastToggle' = NoToggle
  /\ UNCHANGED <<toggleCalls, toggles>>
  /\ UNCHANGED <<isAuthenticated, token, logins>>
  /\ UNCHANGED outsideBookmark

\* AuthContext.jsx:208,217-219  loadUserBookmarks: non-OK response or an error
loadUserBookmarksFailed ==
  /\ bookmarkLoads > 0
  /\ bookmarkLoads' = bookmarkLoads - 1
  /\ lastToggle' = NoToggle
  /\ UNCHANGED <<bookmarkFlags, savedPosts, toggleCalls, toggles>>
  /\ UNCHANGED <<isAuthenticated, token, logins>>
  /\ UNCHANGED outsideBookmark

\* AuthContext.jsx:185-187 and AuthProvider's useState(null)
InitBookmark ==
  /\ isAuthenticated = FALSE
  /\ token = FALSE
  /\ logins = 0
  /\ votes = EmptyMap
  /\ scoreAdjustments = EmptyMap
  /\ loadsInFlight = 0
  /\ calls = [i \in Slots |-> NoCall]
  /\ started = 0
  /\ lastReturn = NoReturn
  /\ trace = << >>
  /\ pc = "boot"
  /\ userVotes = EmptyMap
  /\ userBookmarks = EmptyMap
  /\ votesDirty = FALSE
  /\ bookmarksDirty = FALSE
  /\ votesFile = [kind |-> "missing", data |-> EmptyMap]
  /\ bookmarksFile = [kind |-> "missing", data |-> EmptyMap]
  /\ ops = 0
  /\ lastOp = NoOp
  /\ lastSet = NeverSet
  /\ lastMark = NeverSet
  /\ routeUserVotes = EmptyMap
  /\ routeUserBookmarks = EmptyMap
  /\ requests = [i \in ReqSlots |-> NoRequest]
  /\ clock = 0
  /\ redisUrl = FALSE
  /\ redisClient = "null"
  /\ memoryCache = EmptyMap
  /\ remoteStore = EmptyMap
  /\ now = 0
  /\ cacheOps = 0
  /\ lastCacheOp = NoCacheOp
  /\ fellBack = FALSE
  /\ comments = << >>
  /\ commentTree = << >>
  /\ treeBuilt = FALSE
  /\ searchQuery = << >>
  /\ searchOptions = NoOptions
  /\ searchKey = << >>
  /\ bookmarkFlags = << >>
  /\ savedPosts = << >>
  /\ bookmarkLoads = 0
  /\ toggleCalls = [i \in 1..MaxToggles |-> NoToggle]
  /\ toggles = 0
  /\ lastToggle = NoToggle
  /\ feedCache = << >>
  /\ feedPending = NoFeed
  /\ feedResponse = NoFeedResponse
  /\ feedServed = 0
  /\ store = << >>
  /\ limiterNow = 0
  /\ limited = 0
  /\ lastLimited = NoLimited
  /\ windows = << >>

NextBookmark ==
  \/ \E p \in Posts : toggleRejected(p)
  \/ \E p \in Posts : toggleBookmark(p)
  \/ \E i \in ToggleSlots : bookmarkConfirmed(i)
  \/ \E i \in ToggleSlots, f \in Failures : bookmarkFailed(i, f)
  \/ storeToken
  \/ signedIn
  \/ removeToken
  \/ signedOut
  \/ \E list \in ServerBookmarks : loadUserBookmarksOk(list)
  \/ loadUserBookmarksFailed


\* ============================================ routes/social.ts: read routes
\* How a call to the Lemmy API ends.
Upstream == {"ok", "fails"}
\* lemmy.ts:82-99  searchPosts: catch: throw new Error(...)
searchPosts(up) == IF up = "fails" THEN "throws" ELSE "posts"
\* lemmy.ts:104-115  getPost: catch: return null
getPost(up) == IF up = "fails" THEN "null" ELSE "post"
\* lemmy.ts:120-134  getComments: catch: return []
getComments(up) == IF up = "fails" THEN "empty" ELSE "comments"
\* lemmy.ts:139-162  listCommunities: catch: return []
listCommunities(up) == IF up = "fails" THEN "empty" ELSE "communities"
\* lemmy.ts:167-180  getTrending: catch: return []
getTrending(up) == IF up = "fails" THEN "empty" ELSE "posts"

\* c.json(body, status)
Reply(route, key, status, error, cached, body, upstreamFailed) ==
  [route |-> route, key |-> key, status |-> status, error |-> error, cached |-> cached,
   body |-> body, upstreamFailed |-> upstreamFailed]

\* part_002:91, 166, 226, 258  GET /search, /post/:id, /communities, /trending
FeedRoutes == {"search", "post", "communities", "trending"}
\* The parameter a request carries: the query, the post id or the limit.
FeedParams == {"a", "b"}
\* part_002:109, 177, 231, 262  cacheKey: generateSearchKey(q, ...),
\* `post:${id}`, `communities:${query}`, `trending:${limit}`
cacheKey(route, param) == <<route, param>>
\* A GET request up to its first call to the Lemmy service: the validation
\* of the parameters (part_002:96-104, 168-172) and the cache lookup
\* (part_002:109-121, 177-182, 232-237, 263-268)
feedRequest(route, param, valid) ==
  /\ route \in {"communities", "trending"} => valid
  /\ feedPending = NoFeed
  /\ feedServed < MaxFeedRequests
  /\ feedServed' = feedServed + 1
  /\ LET key == cacheKey(route, param)
     IN IF ~valid
        THEN /\ feedResponse' =
                  Reply(route, key, 400,
                        IF route = "search" THEN "Invalid query parameters"
                        ELSE "Invalid post ID", FALSE, NoBody, FALSE)
             /\ UNCHANGED <<feedCache, feedPending>>
        ELSE IF key \in DOMAIN feedCache
        THEN /\ feedResponse' =
                  Reply(route, key, 200, "", TRUE, feedCache[key], FALSE)
             /\ UNCHANGED <<feedCache, feedPending>>
        ELSE /\ feedPending' = [route |-> route, key |-> key]
             /\ UNCHANGED <<feedCache, feedResponse>>
  /\ UNCHANGED outsideFeed

Answer_NoStore(route, key, body, upstreamFailed) ==
  /\ feedCache' = feedCache
  /\ feedResponse' = Reply(route, key, 200, "", FALSE, body, upstreamFailed)
\* The handler answers 200 with the body and caches it (cacheSet, c.json).
Answer(route, key, body, upstreamFailed) ==
  /\ feedCache' = MapSet(feedCache, key, body)
  /\ feedResponse' = Reply(route, key, 200, "", FALSE, body, upstreamFailed)

\* part_002:123-159  GET /search after the cache miss
searchFetched(upPosts, upCommunities) ==
  /\ feedPending.route = "search"
  /\ feedPending' = NoFeed
  /\ LET posts == searchPosts(upPosts)
         communities == listCommunities(upCommunities)
         failed == upPosts = "fails" \/ upCommunities = "fails"
     IN IF posts = "throws"
        THEN /\ feedResponse' =
                  Reply("search", feedPending.key, 500,
                        "Failed to search community discussions",
                        FALSE, NoBody, failed)
             /\ UNCHANGED feedCache
        ELSE Answer("search", feedPending.key,
                    [NoBody EXCEPT !.posts = posts, !.communities = communities],
                    failed)
  /\ UNCHANGED feedServed
  /\ UNCHANGED outsideFeed

\* part_002:184-219  GET /post/:id after the cache miss
postFetched(upPost, upComments, upCommunities) ==
  /\ feedPending.route = "post"
  /\ feedPending' = NoFeed
  /\ LET post == getPost(upPost)
         postComments == getComments(upComments)
     IN IF post = "null"
        THEN /\ feedResponse' =
                  Reply("post", feedPending.key, 404, "Post not found",
                        FALSE, NoBody, TRUE)
             /\ UNCHANGED feedCache
        ELSE LET communities == listCommunities(upCommunities)
             IN Answer("post", feedPending.key,
                       [posts |-> post, comments |-> postComments,
                        communities |-> IF communities = "empty"
                                        THEN "default" ELSE communities],
                       upComments = "fails" \/ upCommunities = "fails")
  /\ UNCHANGED feedServed
  /\ UNCHANGED outsideFeed

\* part_002:239-251  GET /communities after the cache miss
communitiesFetched(up) ==
  /\ feedPending.route = "communities"
  /\ feedPending' = NoFeed
  /\ Answer("communities", feedPending.key,
            [NoBody EXCEPT !.communities = listCommunities(up)], up = "fails")
  /\ UNCHANGED feedServed
  /\ UNCHANGED outsideFeed

\* part_002:270-285  GET /trending after the cache miss
trendingFetched(up) ==
  /\ feedPending.route = "trending"
  /\ feedPending' = NoFeed
  /\ Answer("trending", feedPending.key,
            [NoBody EXCEPT !.posts = getTrending(up)], up = "fails")
  /\ UNCHANGED feedServed
  /\ UNCHANGED outsideFeed

\* storage.ts:308-313, 362-366  a cached response reaches its TTL
feedCacheExpires(key) ==
  /\ key \in DOMAIN feedCache
  /\ feedCache' = MapDelete(feedCache, key)
  /\ UNCHANGED <<feedPending, feedResponse, feedServed>>
  /\ UNCHANGED outsideFeed

\* part_002:91-286  the server with nothing cached and no request in flight
InitFeed ==
  /\ isAuthenticated = FALSE
  /\ token = FALSE
  /\ logins = 0
  /\ votes = EmptyMap
  /\ scoreAdjustments = EmptyMap
  /\ loadsInFlight = 0
  /\ calls = [i \in Slots |-> NoCall]
  /\ started = 0
  /\ lastReturn = NoReturn
  /\ trace = << >>
  /\ pc = "boot"
  /\ userVotes = EmptyMap
  /\ userBookmarks = EmptyMap
  /\ votesDirty = FALSE
  /\ bookmarksDirty = FALSE
  /\ votesFile = [kind |-> "missing", data |-> EmptyMap]
  /\ bookmarksFile = [kind |-> "missing", data |-> EmptyMap]
  /\ ops = 0
  /\ lastOp = NoOp
  /\ lastSet = NeverSet
  /\ lastMark = NeverSet
  /\ routeUserVotes = EmptyMap
  /\ routeUserBookmarks = EmptyMap
  /\ requests = [i \in ReqSlots |-> NoRequest]
  /\ clock = 0
  /\ redisUrl = FALSE
  /\ redisClient = "null"
  /\ memoryCache = EmptyMap
  /\ remoteStore = EmptyMap
  /\ now = 0
  /\ cacheOps = 0
  /\ lastCacheOp = NoCacheOp
  /\ fellBack = FALSE
  /\ comments = << >>
  /\ commentTree = << >>
  /\ treeBuilt = FALSE
  /\ searchQuery = << >>
  /\ searchOptions = NoOptions
  /\ searchKey = << >>
  /\ bookmarkFlags = << >>
  /\ savedPosts = << >>
  /\ bookmarkLoads = 0
  /\ toggleCalls = [i \in 1..MaxToggles |-> NoToggle]
  /\ toggles = 0
  /\ lastToggle = NoToggle
  /\ feedCache = << >>
  /\ feedPending = NoFeed
  /\ feedResponse = NoFeedResponse
  /\ feedServed = 0
  /\ store = << >>
  /\ limiterNow = 0
  /\ limited = 0
  /\ lastLimited = NoLimited
  /\ windows = << >>

NextFeed ==
  \/ \E r \in FeedRoutes, param \in FeedParams, valid \in BOOLEAN :
       feedRequest(r, param, valid)
  \/ \E a \in Upstream, b \in Upstream : searchFetched(a, b)
  \/ \E a \in Upstream, b \in Upstream, d \in Upstream : postFetched(a, b, d)
  \/ \E a \in Upstream : communitiesFetched(a)
  \/ \E a \in Upstream : trendingFetched(a)
  \/ \E r \in FeedRoutes, param \in FeedParams :
       feedCacheExpires(cacheKey(r, param))


\* =============================================== middleware: rateLimit
\* lemmy.ts:379-382  defaultOptions (scaled down): the window in
\* milliseconds and the requests allowed in a window
windowMs == 1000
max == 2
\* What a step of the clock adds to Date.now().
TickMs == 500
outsideLimit == <<feedVars, voteVars, ledgerVars, routeVars, cacheVars, treeVars,
                  keyVars, bookmarkVars>>

\* lemmy.ts:389-391, 431-448  the key of a request: the first of the headers
\* cf-connecting-ip, x-real-ip, x-forwarded-for the client sent, as text, or
\* 'unknown'
ClientKeys == {"203.0.113.7", "unknown", "constructor"}
\* lemmy.ts:361  const store = {}: a plain object inherits the properties of
\* Object.prototype, so store[key] is an object for these keys although the
\* store has no record of its own for them
ObjectPrototype == {"constructor", "toString", "valueOf", "hasOwnProperty",
                    "__proto__"}

maxOf(a, b) == IF a >= b THEN a ELSE b
\* lemmy.ts:408  Math.ceil(ms / 1000)
ceilSeconds(ms) == IF ms >= 0 THEN (ms + 999) \div 1000 ELSE -((-ms) \div 1000)

\* The window a request of the key at time t falls in, as a limiter that
\* counts per key and window keeps it: a new window with the first request
\* and with the first request after resetTime.
observed(w, key, t, next) ==
  LET add == IF next THEN 1 ELSE 0
  IN IF key \notin DOMAIN w \/ w[key].resetTime < t
     THEN MapSet(w, key, [count |-> 1, resetTime |-> t + windowMs, passed |-> add])
     ELSE MapSet(w, key, [w[key] EXCEPT !.count = @ + 1, !.passed = @ + add])

\* lemmy.ts:416  current.count > config.max
overLimit(count) == count > max

\* lemmy.ts:387-425  the middleware rateLimit() returns, for one request
rateLimit(key) ==
  /\ limited < MaxLimited
  /\ limited' = limited + 1
  /\ IF key \in DOMAIN store \/ key \notin ObjectPrototype
     THEN \* 394-403: record is an own property of the store, or undefined
          LET current ==
                IF key \notin DOMAIN store \/ store[key].resetTime < limiterNow
                THEN [count |-> 1, resetTime |-> limiterNow + windowMs]
                ELSE [store[key] EXCEPT !.count = @ + 1]
              remaining == maxOf(0, max - current.count)
              resetSeconds == ceilSeconds(current.resetTime - limiterNow)
          IN /\ store' = MapSet(store, key, current)
             /\ lastLimited' =
                  IF overLimit(current.count)
                  THEN [key |-> key, next |-> FALSE, status |-> 429,
                        remaining |-> Number(remaining),
                        reset |-> Number(resetSeconds),
                        retryAfter |-> [present |-> TRUE,
                                        value |-> Number(resetSeconds)]]
                  ELSE [key |-> key, next |-> TRUE, status |-> 0,
                        remaining |-> Number(remaining),
                        reset |-> Number(resetSeconds),
                        retryAfter |-> NoHeader]
     ELSE \* record is the inherited object: record.resetTime is undefined,
          \* undefined < now is false (397), count++ makes its count NaN
          \* (403), Math.max(0, max - NaN) is NaN (407), NaN > max is false
          \* (416); the store gets no property of its own
          /\ UNCHANGED store
          /\ lastLimited' = [key |-> key, next |-> TRUE, status |-> 0,
                             remaining |-> NaN, reset |-> NaN,
                             retryAfter |-> NoHeader]
  /\ windows' = observed(windows, key, limiterNow, lastLimited'.next)
  /\ UNCHANGED limiterNow
  /\ UNCHANGED outsideLimit

\* lemmy.ts:364-371  setInterval: the expired records are deleted
cleanupExpired ==
  /\ \E k \in DOMAIN store : store[k].resetTime < limiterNow
  /\ store' = [k \in {x \in DOMAIN store : ~(store[x].resetTime < limiterNow)}
                 |-> store[k]]
  /\ UNCHANGED <<limiterNow, limited, lastLimited, windows>>
  /\ UNCHANGED outsideLimit

\* Date.now() moves on.
limiterTick ==
  /\ limiterNow < MaxLimitTicks * TickMs
  /\ limiterNow' = limiterNow + TickMs
  /\ UNCHANGED <<store, limited, lastLimited, windows>>
  /\ UNCHANGED outsideLimit

\* lemmy.ts:361  the module when it is loaded
InitLimit ==
  /\ store = << >>
  /\ limiterNow = 0
  /\ limited = 0
  /\ lastLimited = NoLimited
  /\ windows = << >>
  /\ feedCache = << >>
  /\ feedPending = NoFeed
  /\ feedResponse = NoFeedResponse
  /\ feedServed = 0
  /\ isAuthenticated = FALSE
  /\ token = FALSE
  /\ logins = 0
  /\ votes = EmptyMap
  /\ scoreAdjustments = EmptyMap
  /\ loadsInFlight = 0
  /\ calls = [i \in Slots |-> NoCall]
  /\ started = 0
  /\ lastReturn = NoReturn
  /\ trace = << >>
  /\ pc = "boot"
  /\ userVotes = EmptyMap
  /\ userBookmarks = EmptyMap
  /\ votesDirty = FALSE
  /\ bookmarksDirty = FALSE
  /\ votesFile = [kind |-> "missing", data |-> EmptyMap]
  /\ bookmarksFile = [kind |-> "missing", data |-> EmptyMap]
  /\ ops = 0
  /\ lastOp = NoOp
  /\ lastSet = NeverSet
  /\ lastMark = NeverSet
  /\ routeUserVotes = EmptyMap
  /\ routeUserBookmarks = EmptyMap
  /\ requests = [i \in ReqSlots |-> NoRequest]
  /\ clock = 0
  /\ redisUrl = FALSE
  /\ redisClient = "null"
  /\ memoryCache = EmptyMap
  /\ remoteStore = EmptyMap
  /\ now = 0
  /\ cacheOps = 0
  /\ lastCacheOp = NoCacheOp
  /\ fellBack = FALSE
  /\ comments = << >>
  /\ commentTree = << >>
  /\ treeBuilt = FALSE
  /\ searchQuery = << >>
  /\ searchOptions = NoOptions
  /\ searchKey = << >>
  /\ bookmarkFlags = << >>
  /\ savedPosts = << >>
  /\ bookmarkLoads = 0
  /\ toggleCalls = [i \in 1..MaxToggles |-> NoToggle]
  /\ toggles = 0
  /\ lastToggle = NoToggle

NextLimit ==
  \/ \E key \in ClientKeys : rateLimit(key)
  \/ cleanupExpired
  \/ limiterTick


\* ===================================== BookmarkProvider and POST /bookmark
\* The browser of the user u1 and the server's bookmarks of u1.
outsideSync == <<isAuthenticated, token, logins, votes, scoreAdjustments,
                 loadsInFlight, calls, started, lastReturn, trace, ledgerVars,
                 routeUserVotes, requests, clock, cacheVars, treeVars, keyVars,
                 feedVars,
   limitVars>>
\* part_002:446-450  what the server stores for the posts of a list
storedFor(list) == [p \in {list[k].id : k \in 1..Len(list)} |-> SavedPost(p)]
serverBookmarks == WithUser(routeUserBookmarks, "u1")["u1"]

\* part_002:427-456  POST /bookmark: the server toggles by its own state
bookmarkHandler(saved, postId, post) ==
  IF postId \in DOMAIN saved
  THEN [bookmarks |-> MapDelete(saved, postId), code |-> 200, saved |-> FALSE]
  ELSE IF ~post
  THEN [bookmarks |-> saved, code |-> 400, saved |-> FALSE]
  ELSE [bookmarks |-> MapSet(saved, postId, SavedPost(postId)), code |-> 200,
        saved |-> TRUE]

\* The request of the call i reaches the server and the handler runs
\* (part_002:427-456); then its response arrives (AuthContext.jsx:278-286)
\* or is lost on the way back and fetch rejects (AuthContext.jsx:287-291).
\* AuthContext.jsx:261-263: the body carries the post only for a save.
bookmarkDelivered(i, lost) ==
  /\ i \in PendingToggles
  /\ LET c == toggleCalls[i]
         out == bookmarkHandler(serverBookmarks, c.postId, ~c.isCurrentlySaved)
     IN /\ routeUserBookmarks' = MapSet(routeUserBookmarks, "u1", out.bookmarks)
        /\ IF ~lost /\ out.code = 200
           THEN /\ lastToggle' = [c EXCEPT !.kind = "ok", !.success = TRUE,
                                    !.saved = ~c.isCurrentlySaved]
                /\ UNCHANGED <<bookmarkFlags, savedPosts>>
           ELSE /\ bookmarkFlags' = RevertBookmarks(c)
                /\ savedPosts' = RevertSavedPosts(c)
                /\ lastToggle' = [c EXCEPT !.kind = "failed", !.success = FALSE,
                                    !.error = ToggleFailureMessage(
                                                IF lost THEN "network" ELSE "error")]
  /\ toggleCalls' = [toggleCalls EXCEPT ![i] = NoToggle]
  /\ UNCHANGED <<bookmarkLoads, toggles>>
  /\ UNCHANGED outsideSync

\* AuthContext.jsx:199-216 and part_002:467-503  the user u1 is signed in and
\* the bookmarks are loaded from the server
InitSync ==
  /\ savedPosts \in ServerBookmarks
  /\ bookmarkFlags = bookmarkMap(savedPosts)
  /\ isAuthenticated = TRUE
  /\ token = TRUE
  /\ logins = 1
  /\ votes = EmptyMap
  /\ scoreAdjustments = EmptyMap
  /\ loadsInFlight = 0
  /\ calls = [i \in Slots |-> NoCall]
  /\ started = 0
  /\ lastReturn = NoReturn
  /\ trace = << >>
  /\ pc = "boot"
  /\ userVotes = EmptyMap
  /\ userBookmarks = EmptyMap
  /\ votesDirty = FALSE
  /\ bookmarksDirty = FALSE
  /\ votesFile = [kind |-> "missing", data |-> EmptyMap]
  /\ bookmarksFile = [kind |-> "missing", data |-> EmptyMap]
  /\ ops = 0
  /\ lastOp = NoOp
  /\ lastSet = NeverSet
  /\ lastMark = NeverSet
  /\ routeUserVotes = EmptyMap
  /\ routeUserBookmarks = ("u1" :> storedFor(savedPosts))
  /\ requests = [i \in ReqSlots |-> NoRequest]
  /\ clock = 0
  /\ redisUrl = FALSE
  /\ redisClient = "null"
  /\ memoryCache = EmptyMap
  /\ remoteStore = EmptyMap
  /\ now = 0
  /\ cacheOps = 0
  /\ lastCacheOp = NoCacheOp
  /\ fellBack = FALSE
  /\ comments = << >>
  /\ commentTree = << >>
  /\ treeBuilt = FALSE
  /\ searchQuery = << >>
  /\ searchOptions = NoOptions
  /\ searchKey = << >>
  /\ bookmarkLoads = 0
  /\ toggleCalls = [i \in 1..MaxToggles |-> NoToggle]
  /\ toggles = 0
  /\ lastToggle = NoToggle
  /\ feedCache = << >>
  /\ feedPending = NoFeed
  /\ feedResponse = NoFeedResponse
  /\ feedServed = 0
  /\ store = << >>
  /\ limiterNow = 0
  /\ limited = 0
  /\ lastLimited = NoLimited
  /\ windows = << >>


\* A request that fails without reaching the handler is bookmarkFailed.
NextSync ==
  \/ \E p \in Posts : toggleBookmark(p)
  \/ \E i \in ToggleSlots, lost \in BOOLEAN : bookmarkDelivered(i, lost)
  \/ \E i \in ToggleSlots, f \in Failures : bookmarkFailed(i, f)


\* The VoteProvider as the browser runs it.
SpecVote == InitVote /\ [][NextVote]_vars
\* The same, recording the calls in trace.
SpecVoteTrace == InitVote /\ [][NextVoteTrace]_vars
\* The storage service of the API server.
SpecLedger == InitLedger /\ [][NextLedger]_vars
\* storage.ts:266-269  setInterval keeps firing while the process runs, and
\* a write of each file succeeds on some tick.
TimerFairness ==
  /\ WF_vars(\E wb \in Writes : autoSave("ok", wb))
  /\ WF_vars(\E wv \in Writes : autoSave(wv, "ok"))
SpecLedgerLive == InitLedger /\ [][NextLedger]_vars /\ TimerFairness
\* The vote and bookmark routes serving concurrent requests.
SpecRoutes == InitRoutes /\ [][NextRoutes]_vars
\* The cache service of the API server.
SpecCache == InitCache /\ [][NextCache]_vars
\* PostPage building the comment tree of the list it was given.
SpecTree == InitTree /\ [][NextTree]_vars
\* The search route computing the cache key of a request.
SpecKey == InitKey /\ [][NextKey]_vars
\* The BookmarkProvider as the browser runs it.
SpecBookmark == InitBookmark /\ [][NextBookmark]_vars
\* The read routes of the API, one request at a time.
SpecFeed == InitFeed /\ [][NextFeed]_vars
\* The BookmarkProvider of one user against the server's POST /bookmark.
SpecSync == InitSync /\ [][NextSync]_vars
\* The rate limiting middleware in front of the API.
SpecLimit == InitLimit /\ [][NextLimit]_vars
\* The storage service, flushed and loaded again.
SpecRoundTrip == InitLedger /\ [][NextRoundTrip]_vars

\* ================================================ VoteProvider: claims
VoteName(v) == IF v \in VoteTypes THEN v ELSE "none"

\* C1: when the confirmation request of a vote() fails (non-OK response or
\* network error), the post's local vote and its accumulated adjustment are
\* again what they were before that call's transition, and vote() returns
\* success = false with an error.
C1_FailedVoteRollsBack ==
  [][\A i \in Slots :
       (calls[i].status = "pending" /\ lastReturn'.call = i
          /\ lastReturn'.outcome \in Failures)
       => /\ Lookup(votes', calls[i].postId) = calls[i].currentVote
          /\ AdjOf(scoreAdjustments', calls[i].postId) = calls[i].preAdj
          /\ lastReturn'.success = FALSE
          /\ lastReturn'.error # ""]_vars

\* Server score 10, vote up (displayed 11): the up -> down call has just failed.
C1_Witness ==
  /\ lastReturn.outcome \in Failures
  /\ lastReturn.currentVote = "up" /\ lastReturn.newVote = "down"
  /\ getVote(lastReturn.postId) = "up"
  /\ getAdjustedScore(lastReturn.postId, 10) = 11

\* The state two calls on one post leave when run one after the other with
\* the outcomes recorded in trace, from vote v and adjustment a.
RECURSIVE Replay(_, _, _)
Replay(v, a, k) ==
  IF k > Len(trace) THEN [vote |-> v, adj |-> a]
  ELSE LET nv == NewVote(v, trace[k].voteType)
       IN IF trace[k].status = "ok"
          THEN Replay(IF nv = "none" THEN Undefined ELSE nv,
                      a + Adjustment(v, nv), k + 1)
          ELSE Replay(v, a, k + 1)

\* C2: vote() calls on one post that overlap are linearized: once all of them
\* have resolved, the post's local vote and adjustment are those of running
\* the calls one after the other with the same outcomes.
C2_OverlappingVotesLinearized ==
  \A p \in Posts :
    (/\ Len(trace) >= 2
     /\ \A k \in 1..Len(trace) :
          /\ trace[k].postId = p
          /\ trace[k].status \in {"ok", "failed"}
          /\ trace[k].live /\ ~trace[k].reloaded)
    => LET r == Replay(trace[1].currentVote, trace[1].preAdj, 1)
       IN /\ Lookup(votes, p) = r.vote
          /\ AdjOf(scoreAdjustments, p) = r.adj

\* C3: vote(postId, voteType) moves the local vote to none (entry removed)
\* when the current vote equals voteType, and straight to voteType otherwise.
C3_ToggleRule ==
  [][\A i \in Slots :
       (calls[i].status = "idle" /\ calls'[i].status = "pending")
       => LET p == calls'[i].postId
              vt == calls'[i].voteType
          IN /\ vt \in VoteTypes
             /\ IF Lookup(votes, p) = vt
                THEN p \notin DOMAIN votes'
                ELSE p \in DOMAIN votes' /\ votes'[p] = vt]_vars

\* One call has toggled its post off, another has switched down -> up.
C3_Witness ==
  \E a, b \in Pending :
    /\ calls[a].currentVote = calls[a].voteType
    /\ calls[a].postId \notin DOMAIN votes
    /\ calls[b].currentVote = "down" /\ calls[b].voteType = "up"
    /\ Lookup(votes, calls[b].postId) = "up"

DeltaTable(prev, new) ==
  CASE prev = "none" /\ new = "up" -> 1
    [] prev = "none" /\ new = "down" -> -1
    [] prev = "up" /\ new = "down" -> -2
    [] prev = "down" /\ new = "up" -> 2
    [] prev = "up" /\ new = "none" -> -1
    [] prev = "down" /\ new = "none" -> 1
    [] OTHER -> 99

\* C4: the delta vote() adds to the post's adjustment is none->up +1,
\* none->down -1, up->down -2, down->up +2, up->none -1, down->none +1.
C4_DeltaTable ==
  [][\A i \in Slots :
       (calls[i].status = "idle" /\ calls'[i].status = "pending")
       => LET p == calls'[i].postId
          IN AdjOf(scoreAdjustments', p) - AdjOf(scoreAdjustments, p)
               = DeltaTable(VoteName(Lookup(votes, p)), VoteName(Lookup(votes', p)))]_vars

\* An up -> down call (-2) and a none -> down call (-1) are both applied.
C4_Witness ==
  \E a, b \in Pending :
    /\ calls[a].currentVote = "up" /\ calls[a].newVote = "down"
    /\ AdjOf(scoreAdjustments, calls[a].postId) = calls[a].preAdj - 2
    /\ calls[b].currentVote = Undefined /\ calls[b].newVote = "down"
    /\ AdjOf(scoreAdjustments, calls[b].postId) = calls[b].preAdj - 1

\* The deltas of the calls of this session on post p that were applied and
\* not rolled back.
RECURSIVE AppliedDelta(_, _)
AppliedDelta(p, k) ==
  IF k = 0 THEN 0
  ELSE AppliedDelta(p, k - 1)
       + IF trace[k].postId = p /\ trace[k].live /\ trace[k].status \in {"pending", "ok"}
         THEN Adjustment(trace[k].currentVote, trace[k].newVote) ELSE 0

\* C5: getAdjustedScore(postId, serverScore) is serverScore plus the sum of
\* the deltas of the transitions applied and not rolled back.
C5_ScoreIsServerPlusAppliedDeltas ==
  \A p \in Posts :
    getAdjustedScore(p, 10) = 10 + AppliedDelta(p, Len(trace))

\* ============================================== storage service: claims
\* The document d holds exactly the entries of the Map m, keys as strings.
HoldsAll(d, m) ==
  /\ DOMAIN d = DOMAIN m
  /\ \A u \in DOMAIN m :
       /\ DOMAIN d[u] = {KeyOf(q) : q \in DOMAIN m[u]}
       /\ \A q \in DOMAIN m[u] : d[u][KeyOf(q)] = m[u][q]
HasEntry(f, u, q) ==
  f.kind = "json" /\ u \in DOMAIN f.data /\ KeyOf(q) \in DOMAIN f.data[u]

\* One structure over an auto-save tick.
TickClause(dirty, w, file, fileAfter, dirtyAfter, m) ==
  IF ~dirty THEN fileAfter = file /\ ~dirtyAfter
  ELSE IF w = "ok"
       THEN fileAfter.kind = "json" /\ HoldsAll(fileAfter.data, m) /\ ~dirtyAfter
       ELSE dirtyAfter

\* C6: on each auto-save tick, for votes and bookmarks independently: a clear
\* flag writes nothing; a set flag and a successful write leave the file
\* holding the whole in-memory map and the flag clear; a failed write leaves
\* the flag set, the map unchanged and the process running.
C6_AutoSaveTick ==
  [][(pc = "running" /\ lastOp'.name = "autoSave")
     => /\ pc' = "running"
        /\ userVotes' = userVotes /\ userBookmarks' = userBookmarks
        /\ TickClause(votesDirty, lastOp'.wv, votesFile, votesFile',
                      votesDirty', userVotes)
        /\ TickClause(bookmarksDirty, lastOp'.wb, bookmarksFile, bookmarksFile',
                      bookmarksDirty', userBookmarks)]_vars

\* A tick has written the votes and failed to write the bookmarks.
C6_Witness ==
  /\ pc = "running" /\ lastOp.name = "autoSave"
  /\ lastOp.wv = "ok" /\ lastOp.wb \in {"fail", "torn"}
  /\ \E u \in Users, q \in LedgerPosts : lastSet[u][q] \in VoteTypes
  /\ ~votesDirty /\ votesFile.kind = "json" /\ HoldsAll(votesFile.data, userVotes)
  /\ bookmarksDirty
  /\ \E u \in Users, q \in LedgerPosts : lastMark[u][q] = "added"

\* C7: setUserVote, addUserBookmark and removeUserBookmark (of a bookmark
\* that existed) change the in-memory map of their structure and set its
\* dirty flag, and leave the other structure and both files as they were.
C7_MutatorsNeverWrite ==
  [][/\ lastOp'.name = "setUserVote"
          => /\ votesDirty'
             /\ votesFile' = votesFile /\ bookmarksFile' = bookmarksFile
             /\ userBookmarks' = userBookmarks /\ bookmarksDirty' = bookmarksDirty
     /\ (lastOp'.name = "addUserBookmark"
           \/ (lastOp'.name = "removeUserBookmark" /\ lastOp'.result = "true"))
          => /\ bookmarksDirty'
             /\ votesFile' = votesFile /\ bookmarksFile' = bookmarksFile
             /\ userVotes' = userVotes /\ votesDirty' = votesDirty]_vars

\* A bookmark loaded from the file was removed: the flag is set, the file
\* still holds it.
C7_Witness ==
  /\ lastOp.name = "removeUserBookmark" /\ lastOp.result = "true"
  /\ bookmarksDirty
  /\ HasEntry(bookmarksFile, lastOp.userId, lastOp.postId)
  /\ lastOp.postId \notin DOMAIN userBookmarks[lastOp.userId]

\* C8: getUserVote returns the value of the last setUserVote on the same
\* (userId, postId) when it was 'up' or 'down'; after a last call with null
\* the entry is gone from the user's map and from the data of the next flush.
C8_LastVoteWins ==
  \A u \in Users, q \in LedgerPosts :
    /\ lastSet[u][q] \in VoteTypes
         => getUserVoteResult(userVotes, u, q) = lastSet[u][q]
    /\ lastSet[u][q] = "null"
         => /\ u \in DOMAIN userVotes /\ q \notin DOMAIN userVotes[u]
            /\ getUserVoteResult(userVotes, u, q) = "null"
            /\ ~votesDirty => (votesFile.kind = "json" /\ ~HasEntry(votesFile, u, q))

\* The vote the file held at startup was retracted and the flush has run.
C8_Witness ==
  /\ lastSet["u1"][Num(1)] = "null"
  /\ lastOp.name = "autoSave" /\ lastOp.wv = "ok"
  /\ ~votesDirty /\ votesFile.kind = "json"
  /\ "u1" \in DOMAIN votesFile.data /\ ~HasEntry(votesFile, "u1", Num(1))

\* C9: on SIGINT / SIGTERM both maps are flushed and the process exits; a
\* failed write of one map prevents neither the other write nor the exit;
\* when a write succeeds, every mutation of that structure is in its file.
C9_FlushOnSignal ==
  [][(pc = "running" /\ lastOp'.name = "onSignal")
     => /\ pc' = "exited"
        /\ (votesDirty /\ lastOp'.wv = "ok")
             => votesFile'.kind = "json" /\ HoldsAll(votesFile'.data, userVotes)
        /\ (bookmarksDirty /\ lastOp'.wb = "ok")
             => bookmarksFile'.kind = "json"
                /\ HoldsAll(bookmarksFile'.data, userBookmarks)
        /\ lastOp'.wv = "ok"
             => \A u \in Users, q \in LedgerPosts :
                  /\ lastSet[u][q] \in VoteTypes
                       => HasEntry(votesFile', u, q)
                          /\ votesFile'.data[u][KeyOf(q)] = lastSet[u][q]
                  /\ lastSet[u][q] = "null" => ~HasEntry(votesFile', u, q)
        /\ lastOp'.wb = "ok"
             => \A u \in Users, q \in LedgerPosts :
                  /\ lastMark[u][q] = "added" => HasEntry(bookmarksFile', u, q)
                  /\ lastMark[u][q] = "removed" => ~HasEntry(bookmarksFile', u, q)]_vars

\* The process has exited: the votes write failed, the bookmarks were saved.
C9_Witness ==
  /\ pc = "exited" /\ lastOp.name = "onSignal"
  /\ lastOp.wv = "fail" /\ lastOp.wb = "ok"
  /\ votesDirty /\ ~bookmarksDirty
  /\ \E u \in Users, q \in LedgerPosts :
       lastMark[u][q] = "added" /\ HasEntry(bookmarksFile, u, q)

\* One structure over initStorage.
LoadClause(file, m) ==
  IF file.kind = "json" THEN HoldsAll(file.data, m) ELSE m = EmptyMap

\* C10: at startup each file is loaded on its own: a missing or unparseable
\* file leaves its structure empty, startup goes on, and the other structure
\* is what its own file holds.
C10_IndependentLoad ==
  [][(pc = "boot" /\ lastOp'.name = "initStorage" /\ lastOp'.dir)
     => /\ pc' = "running"
        /\ LoadClause(votesFile, userVotes')
        /\ LoadClause(bookmarksFile, userBookmarks')]_vars

\* The votes file did not parse; the bookmarks were loaded.
C10_Witness ==
  /\ pc = "running" /\ lastOp.name = "initStorage"
  /\ votesFile.kind = "corrupt" /\ userVotes = EmptyMap
  /\ bookmarksFile.kind = "json"
  /\ "u2" \in DOMAIN userBookmarks /\ Num(2) \in DOMAIN userBookmarks["u2"]
  /\ userBookmarks["u2"][Num(2)] = SavedPost(Num(2))

\* C11: the maps a fresh instance loads from the files a flush has written
\* equal the in-memory maps that were flushed: same users, same postIds as
\* numbers, same values.
C11_RoundTrip ==
  [][(lastOp'.name = "flushStorage" /\ lastOp'.wv = "ok" /\ lastOp'.wb = "ok")
     => /\ loadVotes'.map = userVotes
        /\ loadBookmarks'.map = userBookmarks]_vars

\* C12: under a fair auto-save timer whose writes eventually succeed, a set
\* dirty flag leads to a state where the flag is clear and the file holds the
\* in-memory map (the calls are bounded, so mutations stop); the timer stops
\* only when the process exits.
C12_EventuallyPersisted ==
  /\ (pc = "running" /\ votesDirty)
       ~> \/ ~votesDirty /\ votesFile.kind = "json"
                /\ HoldsAll(votesFile.data, userVotes)
          \/ pc = "exited"
  /\ (pc = "running" /\ bookmarksDirty)
       ~> \/ ~bookmarksDirty /\ bookmarksFile.kind = "json"
                /\ HoldsAll(bookmarksFile.data, userBookmarks)
          \/ pc = "exited"

\* A vote and a bookmark were made and one tick has written both files.
C12_Witness ==
  /\ pc = "running" /\ lastOp.name = "autoSave"
  /\ lastOp.wv = "ok" /\ lastOp.wb = "ok"
  /\ \E u \in Users, q \in LedgerPosts :
       lastSet[u][q] \in VoteTypes /\ HasEntry(votesFile, u, q)
  /\ \E u \in Users, q \in LedgerPosts :
       lastMark[u][q] = "added" /\ HasEntry(bookmarksFile, u, q)
  /\ ~votesDirty /\ ~bookmarksDirty

\* =================================================== routes: claims
\* The requests answered 200 on the entry of request i before i was.
Before(i) ==
  {j \in ReqSlots :
     /\ requests[j].status = "done" /\ requests[j].response.code = 200
     /\ requests[j].route = requests[i].route
     /\ requests[j].userId = requests[i].userId
     /\ requests[j].postId = requests[i].postId
     /\ requests[j].finished < requests[i].finished}
Latest(S) == CHOOSE j \in S : \A k \in S : requests[k].finished <= requests[j].finished

\* C13: the requests on one (userId, postId) entry take effect one whole
\* request after the other, in the order of their responses: each POST /vote
\* reports as previous vote what the request answered just before it wrote,
\* each POST /bookmark toggles what the request before it left, and the entry
\* holds what the last one wrote.
C13_MutationsLinearized ==
  \A i \in ReqSlots :
    (requests[i].status = "done" /\ requests[i].response.code = 200)
    => LET r == requests[i]
           left == IF Before(i) = {} THEN [vote |-> "null", saved |-> FALSE]
                   ELSE requests[Latest(Before(i))].response
       IN IF r.route = "vote"
          THEN /\ r.response.previousVote = left.vote
               /\ r.response.scoreChange
                    = scoreChange(IF left.vote = "null" THEN Undefined ELSE left.vote,
                                  r.vote)
               /\ (\A j \in ReqSlots : i \in Before(j) => FALSE)
                    => previousVote(r.userId, r.postId)
                         = IF r.vote = "none" THEN Undefined ELSE r.vote
          ELSE /\ r.response.saved = ~left.saved
               /\ (\A j \in ReqSlots : i \in Before(j) => FALSE)
                    => (r.postId \in DOMAIN routeUserBookmarks[r.userId])
                         = r.response.saved

\* Two POST /vote of one user on one post overlap: the second to arrive was
\* answered first, and the first reports the vote the second wrote.
C13_Witness ==
  \E a, b \in ReqSlots :
    /\ requests[a].status = "done" /\ requests[b].status = "done"
    /\ requests[a].route = "vote" /\ requests[b].route = "vote"
    /\ requests[a].response.code = 200 /\ requests[b].response.code = 200
    /\ requests[a].userId = requests[b].userId
    /\ requests[a].postId = requests[b].postId
    /\ requests[a].arrived < requests[b].arrived
    /\ requests[b].finished < requests[a].finished
    /\ requests[b].vote = "down"
    /\ requests[a].response.previousVote = "down"
    /\ requests[a].response.scoreChange = 2

\* ==================================================== cache: claims
\* A cache function has run in the step.
CacheStep == cacheOps' = cacheOps + 1

\* C14: a cacheGet(key) that follows a cacheSet(key, value, ttlSeconds) with
\* no other cache call between them returns value when no time has passed,
\* and null when more than ttlSeconds have passed (neither call having run
\* into a storage failure).
C14_SetThenGet ==
  [][(/\ CacheStep
      /\ lastCacheOp.name = "set" /\ ~lastCacheOp.caught
      /\ lastCacheOp'.name = "get" /\ ~lastCacheOp'.caught
      /\ lastCacheOp'.key = lastCacheOp.key)
     => /\ lastCacheOp'.at = lastCacheOp.at
             => lastCacheOp'.result = lastCacheOp.value
        /\ lastCacheOp'.at > lastCacheOp.at + lastCacheOp.ttl * 1000
             => lastCacheOp'.result = "null"]_vars

\* C15: once getRedisClient has found the remote store unusable (no address,
\* or a failed connection), every later cache operation uses the in-process
\* backend and makes no connection attempt.
C15_FallbackIsPermanent ==
  [][(CacheStep /\ fellBack)
     => /\ lastCacheOp'.backend = "memory"
        /\ ~lastCacheOp'.attempt]_vars

\* C16: a cacheGet served by the in-process backend returns null and removes
\* the entry when now > timestamp + ttl*1000, the same null as for a key with
\* no entry; while now <= timestamp + ttl*1000 it returns the stored data and
\* leaves the entry.
C16_ExpiredIsAbsent ==
  [][(CacheStep /\ lastCacheOp'.name = "get" /\ lastCacheOp'.backend = "memory")
     => LET pk == prefixed(lastCacheOp'.key)
        IN IF pk \notin DOMAIN memoryCache
           THEN lastCacheOp'.result = "null" /\ memoryCache' = memoryCache
           ELSE IF now > memoryCache[pk].timestamp + memoryCache[pk].ttl * 1000
           THEN /\ lastCacheOp'.result = "null"
                /\ pk \notin DOMAIN memoryCache'
           ELSE /\ lastCacheOp'.result = memoryCache[pk].data
                /\ memoryCache' = memoryCache]_vars

\* An entry was read at the very end of its life and returned.
C16_Witness ==
  /\ lastCacheOp.name = "get" /\ lastCacheOp.backend = "memory"
  /\ prefixed(lastCacheOp.key) \in DOMAIN memoryCache
  /\ LET e == memoryCache[prefixed(lastCacheOp.key)]
     IN /\ now = e.timestamp + e.ttl * 1000
        /\ lastCacheOp.at = now
        /\ lastCacheOp.result = e.data

stripTrailingWildcard(pattern) ==
  IF pattern # << >> /\ pattern[Len(pattern)] = "*"
  THEN SubSeq(pattern, 1, Len(pattern) - 1) ELSE pattern

\* C18: cacheInvalidate(pattern) removes from the backend it runs on exactly
\* the stored keys that start with the namespaced pattern less its trailing
\* wildcard.
C18_InvalidateByPrefix ==
  [][(CacheStep /\ lastCacheOp'.name = "invalidate" /\ ~lastCacheOp'.caught)
     => LET prefix == prefixed(stripTrailingWildcard(lastCacheOp'.key))
            stored == IF lastCacheOp'.backend = "memory" THEN DOMAIN memoryCache
                      ELSE LiveKeys(remoteStore, now)
            kept == IF lastCacheOp'.backend = "memory" THEN DOMAIN memoryCache'
                    ELSE LiveKeys(remoteStore', now)
        IN kept = {k \in stored : ~startsWith(k, prefix)}]_vars

\* C19: every key or pattern a cache function hands to a backend starts with
\* presocial: , and so does every key the in-process map holds; the key of
\* another service in the remote store is never touched.
C19_Namespace ==
  /\ lastCacheOp.name # "" => Head(lastCacheOp.backendKey) = "presocial:"
  /\ \A k \in DOMAIN memoryCache : Head(k) = "presocial:"
  /\ remoteStore # EmptyMap
       => ForeignKey \in DOMAIN remoteStore /\ remoteStore[ForeignKey] = ForeignEntry

\* The remote store was invalidated with a pattern that, without the
\* namespace, matches the key of the other service.
C19_Witness ==
  /\ lastCacheOp.name = "invalidate" /\ lastCacheOp.backend = "remote"
  /\ ~lastCacheOp.caught
  /\ lastCacheOp.key = <<"*", "communities:", "*">>
  /\ globMatch(lastCacheOp.key, ForeignKey)
  /\ ForeignKey \in DOMAIN remoteStore
  /\ prefixed(<<"communities:">>) \notin DOMAIN remoteStore

\* ============================================= buildCommentTree: claims
\* The ids met walking the tree from its roots, one per visit.
RECURSIVE reachableIds(_)
reachableIds(nodes) ==
  IF nodes = << >> THEN << >>
  ELSE <<Head(nodes).id>> \o reachableIds(Head(nodes).replies)
       \o reachableIds(Tail(nodes))
Occurrences(list, x) == Cardinality({i \in 1..Len(list) : list[i] = x})

\* C20: every comment of the flat list (distinct ids, any parentId values) is
\* met exactly once walking the returned tree from its roots, and nothing
\* else is met.
C20_EveryCommentOnce ==
  treeBuilt
  => LET met == reachableIds(commentTree)
     IN /\ Len(met) = Len(comments)
        /\ \A i \in 1..Len(comments) : Occurrences(met, comments[i].id) = 1

\* Every node of the tree, at every depth.
RECURSIVE nodesOf(_)
nodesOf(nodes) ==
  IF nodes = << >> THEN {}
  ELSE {Head(nodes)} \cup nodesOf(Head(nodes).replies) \cup nodesOf(Tail(nodes))
IdsOf(list) == {list[i].id : i \in 1..Len(list)}
InputOf(flat) == {flat[i] : i \in 1..Len(flat)}
NoRepeat(list) == Cardinality(IdsOf(list)) = Len(list)

\* C21: the roots of the returned tree are the comments whose parentId is
\* unset or names no comment of the list (true roots and orphans), and the
\* replies of every node of the tree are the comments that name it as parent,
\* each once.
C21_PlacementRule ==
  treeBuilt
  => /\ IdsOf(commentTree)
          = {c.id : c \in {d \in InputOf(comments) :
                             d.parentId = 0 \/ d.parentId \notin IdsOf(comments)}}
     /\ NoRepeat(commentTree)
     /\ \A n \in nodesOf(commentTree) :
          /\ IdsOf(n.replies)
               = {c.id : c \in {d \in InputOf(comments) :
                                  d.parentId # 0 /\ d.parentId = n.id}}
          /\ NoRepeat(n.replies)

\* An orphan (its parent 9 is not in the list) is the single root and the two
\* other comments are its direct replies.
C21_Witness ==
  /\ treeBuilt /\ Len(comments) = 3
  /\ Len(commentTree) = 1
  /\ commentTree[1].parentId = 9
  /\ Len(commentTree[1].replies) = 2

\* The position of the comment id in the flat list.
IndexIn(flat, id) == CHOOSE i \in 1..Len(flat) : flat[i].id = id
Ordered(flat, list) ==
  \A i, j \in 1..Len(list) :
    i < j => \/ list[i].score > list[j].score
             \/ /\ list[i].score = list[j].score
                /\ IndexIn(flat, list[i].id) < IndexIn(flat, list[j].id)

\* C22: the roots and the replies of every node are in descending order of
\* score, comments of equal score in their order of the flat list.
C22_SortedStable ==
  treeBuilt
  => /\ Ordered(comments, commentTree)
     /\ \A n \in nodesOf(commentTree) : Ordered(comments, n.replies)

\* Three roots: the best comes last in the flat list, the two others tie.
C22_Witness ==
  /\ treeBuilt /\ Len(comments) = 3 /\ Len(commentTree) = 3
  /\ comments[1].score = 1 /\ comments[2].score = 1 /\ comments[3].score = 2
  /\ commentTree[1].id = comments[3].id
  /\ commentTree[2].id = comments[1].id
  /\ commentTree[3].id = comments[2].id

\* Every node met at nesting level k and below has its level as depth.
RECURSIVE DepthIsLevel(_, _)
DepthIsLevel(nodes, k) ==
  \A i \in 1..Len(nodes) :
    nodes[i].depth = k /\ DepthIsLevel(nodes[i].replies, k + 1)

\* C23: when the flat list is made of comments as transformComment produces
\* them, the depth field of every node of the tree is the number of its
\* ancestors in the tree: 0 for a root, one more for each level of replies.
C23_DepthIsAncestorCount ==
  (treeBuilt
   /\ \A c \in InputOf(comments) :
        \E path \in CommentPaths : transformComment(path, c.score) = c)
  => DepthIsLevel(commentTree, 0)

\* The bijections of 1..n.
Reorderings(n) ==
  {f \in [1..n -> 1..n] : \A i, j \in 1..n : i # j => f[i] # f[j]}
Permuted(flat, f) == [i \in 1..Len(flat) |-> flat[f[i]]]
\* No two comments placed under the same parent (or both as roots) tie.
NoTiedSiblings(flat) ==
  \A c, d \in InputOf(flat) :
    (c.id # d.id /\ c.score = d.score)
    => \/ attached(flat, c) # attached(flat, d)
       \/ attached(flat, c) /\ c.parentId # d.parentId
\* Who is whose reply in the tree (0: a root).
RECURSIVE EdgesOf(_, _)
EdgesOf(nodes, parent) ==
  IF nodes = << >> THEN {}
  ELSE {<<parent, Head(nodes).id>>}
       \cup EdgesOf(Head(nodes).replies, Head(nodes).id)
       \cup EdgesOf(Tail(nodes), parent)

\* C24: building the tree leaves the flat list as it was, and every
\* permutation of the list gives a tree with the same parent/reply relation;
\* when no two siblings tie in score it gives the very same tree.
C24_OrderIndependent ==
  treeBuilt
  => \A f \in Reorderings(Len(comments)) :
       LET other == buildCommentTree(Permuted(comments, f))
       IN /\ EdgesOf(other, 0) = EdgesOf(commentTree, 0)
          /\ NoTiedSiblings(comments) => other = commentTree

\* Two roots given in ascending order of score, and a reply: the tree starts
\* with the second comment of the list.
C24_Witness ==
  /\ treeBuilt /\ Len(comments) = 3 /\ NoTiedSiblings(comments)
  /\ Len(commentTree) = 2
  /\ comments[1].score < comments[2].score
  /\ commentTree[1].id = comments[2].id
  /\ commentTree[2].id = comments[1].id
  /\ Len(commentTree[2].replies) = 1

\* The query texts one edit away from q: the case of one letter changed, one
\* whitespace character added or removed at either end, or one whitespace
\* character added to a run of whitespace inside the text.
swapCase(c) ==
  CASE c = "a" -> "A" [] c = "A" -> "a" [] c = "b" -> "B" [] c = "B" -> "b"
    [] OTHER -> c
CaseEdits(q) ==
  {[q EXCEPT ![i] = swapCase(q[i])] : i \in 1..Len(q)}
EdgeEdits(q) ==
  {<<w>> \o q : w \in Whitespace} \cup {q \o <<w>> : w \in Whitespace}
RunEdits(q) ==
  {SubSeq(q, 1, i) \o <<w>> \o SubSeq(q, i + 1, Len(q)) :
     i \in {k \in 1..(Len(q) - 1) : q[k] \in Whitespace \/ q[k + 1] \in Whitespace},
     w \in Whitespace}
Edits(q) == CaseEdits(q) \cup EdgeEdits(q) \cup RunEdits(q)

SameFields(o, p) ==
  /\ o.given = p.given
  /\ {o.entries[i] : i \in 1..Len(o.entries)}
       = {p.entries[i] : i \in 1..Len(p.entries)}

\* C26: two options objects holding the same field/value pairs give the same
\* key for the same query, whatever the order in which the fields were
\* inserted.
C26_KeyIgnoresFieldOrder ==
  searchKey # << >>
  => \A o \in SearchOptions :
       SameFields(o, searchOptions)
       => generateSearchKey(searchQuery, o) = searchKey

\* ============================================ BookmarkProvider: claims
\* A step of a toggleBookmark() call: its start, or the end of its request.
ToggleStep == toggleCalls' # toggleCalls

\* C27: a toggleBookmark() that passes the guards on a post that is not saved
\* puts the snapshot of the post at index 0 of savedPosts, before the
\* snapshots that were there, and flags the post; on a saved post it removes
\* the snapshots with that id and the flag; an OK confirmation changes
\* neither and returns success with saved set to the new state.
C27_SaveAtHeadRemoveById ==
  [][/\ (ToggleStep /\ lastToggle'.kind = "toggle")
        => LET postId == lastToggle'.postId
               Others(p) == p.id # postId
           IN IF postId \notin DOMAIN bookmarkFlags
              THEN /\ Len(savedPosts') = Len(savedPosts) + 1
                   /\ savedPosts'[1].id = postId
                   /\ Tail(savedPosts') = savedPosts
                   /\ postId \in DOMAIN bookmarkFlags'
              ELSE /\ savedPosts' = SelectSeq(savedPosts, Others)
                   /\ postId \notin DOMAIN bookmarkFlags'
     /\ (ToggleStep /\ lastToggle'.kind = "ok")
        => /\ UNCHANGED <<bookmarkFlags, savedPosts>>
           /\ lastToggle'.success
           /\ lastToggle'.saved = ~lastToggle'.isCurrentlySaved]_vars

\* Post 1 was saved first, post 2 second, which gave [2, 1]; the third call
\* unsaved post 1 and was confirmed: savedPosts is [2].
C27_Witness ==
  /\ lastToggle.kind = "ok" /\ lastToggle.postId = 1
  /\ lastToggle.isCurrentlySaved
  /\ lastToggle.previousSavedPosts = <<snapshot(2, 2), snapshot(1, 1)>>
  /\ savedPosts = <<snapshot(2, 2)>>
  /\ DOMAIN bookmarkFlags = {2}
  /\ toggles = 3 /\ PendingToggles = {}

\* C28: when the request of a toggleBookmark() fails, bookmarks and savedPosts
\* are again what they were when the call started, and the call returns
\* success = false with an error.
C28_FailureRestores ==
  [][(ToggleStep /\ lastToggle'.kind = "failed")
     => /\ bookmarkFlags' = lastToggle'.previousBookmarks
        /\ savedPosts' = lastToggle'.previousSavedPosts
        /\ (lastToggle'.postId \in DOMAIN bookmarkFlags')
             = lastToggle'.isCurrentlySaved
        /\ ~lastToggle'.success
        /\ lastToggle'.error # ""]_vars

\* The save of post 2 failed on the network with post 1 already saved:
\* savedPosts is [1] again.
C28_Witness ==
  /\ lastToggle.kind = "failed" /\ lastToggle.error = "Network error"
  /\ lastToggle.postId = 2 /\ ~lastToggle.isCurrentlySaved
  /\ savedPosts = <<snapshot(1, 1)>>
  /\ DOMAIN bookmarkFlags = {1}

\* C29: while the user is not authenticated, votes, scoreAdjustments,
\* bookmarks and savedPosts are empty, whatever request resolves meanwhile.
C29_EmptyWhileSignedOut ==
  ~isAuthenticated
  => /\ votes = EmptyMap
     /\ scoreAdjustments = EmptyMap
     /\ bookmarkFlags = << >>
     /\ savedPosts = << >>

\* ===================================================== read routes: claims
\* C30: a request during which a call to the Lemmy API failed is answered
\* with status 200 and no error, its body holding empty or default parts.
C30_UpstreamFailureDegrades ==
  feedResponse.upstreamFailed
  => feedResponse.status = 200 /\ feedResponse.error = ""

\* ======================================= VoteProvider: claims, continued
\* C31: the failure of a vote() on one post, with no sign-out and no reload
\* of the votes since the call started, leaves the local vote and the
\* accumulated adjustment of every other post as they were just before.
C31_FailureLeavesOtherPosts ==
  [][\A i \in Slots :
       (/\ calls[i].status = "pending" /\ lastReturn'.call = i
        /\ lastReturn'.outcome \in Failures
        /\ calls[i].tix > 0
        /\ trace[calls[i].tix].live /\ ~trace[calls[i].tix].reloaded)
       => \A p \in Posts \ {calls[i].postId} :
            /\ Lookup(votes', p) = Lookup(votes, p)
            /\ AdjOf(scoreAdjustments', p) = AdjOf(scoreAdjustments, p)]_vars

\* ===================================== storage service: claims, continued
\* C32: while the service runs, a map whose serialization is not the JSON
\* document in its file has its dirty flag set; for votes and for bookmarks.
C32_DivergedIsDirty ==
  pc = "running"
  => /\ (votesFile.kind = "json" /\ Serialize(userVotes) # votesFile.data)
        => votesDirty
     /\ (bookmarksFile.kind = "json" /\ Serialize(userBookmarks) # bookmarksFile.data)
        => bookmarksDirty

\* ======================================= VoteProvider: claims, continued
\* val(up) = 1, val(down) = -1, val(none) = 0
val(v) == IF v = "up" THEN 1 ELSE IF v = "down" THEN -1 ELSE 0

\* C33: for every post the accumulated adjustment is the value of the local
\* vote minus the value of some vote the post can have had when the votes
\* were loaded (up, down or none), and so lies in -2..2.
C33_AdjustmentIsVoteDifference ==
  \A p \in Posts :
    /\ \E loaded \in {"up", "down", "none"} :
         AdjOf(scoreAdjustments, p) = val(Lookup(votes, p)) - val(loaded)
    /\ AdjOf(scoreAdjustments, p) \in -2..2

C35_ClientAgreesWithServer ==
  PendingToggles = {}
  => \A p \in Posts :
       (p \in DOMAIN bookmarkFlags) = (p \in DOMAIN serverBookmarks)

\* ========================================= cache service: claims, continued
\* The keys each backend's matching rule selects from the same stored keys.
globSelected(stored, prefixedPattern) ==
  {k \in stored : globMatch(prefixedPattern, k)}
prefixSelected(stored, prefixedPattern) ==
  {k \in stored : startsWith(k, replaceStar(prefixedPattern))}

\* C36: the two backends are interchangeable. A cacheInvalidate that did not
\* fail removes, from the keys its backend holds, the keys the rule of the
\* in-process backend selects and the keys the rule of the remote backend
\* selects (the two selections are one set); and a cacheGet served by the
\* in-process backend for a stored entry returns what the remote backend
\* returns for an entry written at the same time with the same TTL: the
\* value while now < timestamp + ttl*1000, null from then on.
C36_BackendsAgree ==
  [][(CacheStep /\ ~lastCacheOp'.caught)
     => /\ lastCacheOp'.name = "invalidate"
             => LET pp == prefixed(lastCacheOp'.key)
                    stored == IF lastCacheOp'.backend = "memory"
                              THEN DOMAIN memoryCache
                              ELSE LiveKeys(remoteStore, now)
                    kept == IF lastCacheOp'.backend = "memory"
                            THEN DOMAIN memoryCache'
                            ELSE LiveKeys(remoteStore', now)
                IN /\ stored \ kept = globSelected(stored, pp)
                   /\ stored \ kept = prefixSelected(stored, pp)
        /\ (/\ lastCacheOp'.name = "get" /\ lastCacheOp'.backend = "memory"
            /\ prefixed(lastCacheOp'.key) \in DOMAIN memoryCache
            /\ CanStringify(memoryCache[prefixed(lastCacheOp'.key)].data))
             => LET e == memoryCache[prefixed(lastCacheOp'.key)]
                IN lastCacheOp'.result =
                     IF now < e.timestamp + e.ttl * 1000 THEN e.data ELSE "null"]_vars

LimitStep == limited' = limited + 1

\* C38: in every window of every key at most max requests are passed on; a
\* request is passed on exactly when it leaves the count of its window at
\* most max, and is otherwise answered 429 with Retry-After set; the store
\* holds the window's count and resetTime, the count being 1 for the first
\* request of a key and for the first one after resetTime; and
\* X-RateLimit-Remaining is the number max(0, max - count).
C38_AtMostMaxPerWindow ==
  [][LimitStep
     => LET k == lastLimited'.key
            w == windows'[k]
        IN /\ w.passed <= max
           /\ lastLimited'.next = (w.count <= max)
           /\ ~lastLimited'.next
                => /\ lastLimited'.status = 429
                   /\ lastLimited'.retryAfter.present
                   /\ ~lastLimited'.retryAfter.value.nan
           /\ k \in DOMAIN store'
           /\ store'[k].count = w.count
           /\ store'[k].resetTime = w.resetTime
           /\ (k \notin DOMAIN windows \/ windows[k].resetTime < limiterNow)
                => w.count = 1
           /\ lastLimited'.remaining = Number(maxOf(0, max - w.count))
           /\ lastLimited'.remaining.n >= 0]_vars

\* ========================================= cache service: claims, continued
\* The TTL of an entry has elapsed at time t.
elapsed(entry, t) == t - entry.timestamp > entry.ttl * 1000

\* C39: a cacheSet served by the in-process backend writes the entry; when
\* that leaves more than HighWater entries, the map afterwards holds exactly
\* the entries whose TTL has not elapsed, unchanged, and otherwise every
\* entry; in both cases the entry just written is in the map with the value
\* and is not expired, and the cacheGet of the key that follows it at once
\* returns the value.
C39_ReapOnSet ==
  [][/\ (/\ CacheStep /\ lastCacheOp'.name = "set"
         /\ lastCacheOp'.backend = "memory")
          => LET pk == prefixed(lastCacheOp'.key)
                 written == [data |-> lastCacheOp'.value, timestamp |-> now,
                             ttl |-> lastCacheOp'.ttl]
                 all == DOMAIN memoryCache \cup {pk}
                 entryOf(k) == IF k = pk THEN written ELSE memoryCache[k]
                 kept == IF Cardinality(all) > HighWater
                         THEN {k \in all : ~elapsed(entryOf(k), now)}
                         ELSE all
             IN /\ DOMAIN memoryCache' = kept
                /\ \A k \in kept : memoryCache'[k] = entryOf(k)
                /\ pk \in DOMAIN memoryCache'
                /\ memoryCache'[pk].data = lastCacheOp'.value
                /\ lastCacheOp'.swept = (Cardinality(all) > HighWater)
     /\ (/\ CacheStep /\ lastCacheOp'.name = "get"
         /\ lastCacheOp'.backend = "memory"
         /\ lastCacheOp.name = "set" /\ lastCacheOp.backend = "memory"
         /\ lastCacheOp.key = lastCacheOp'.key
         /\ lastCacheOp.at = now)
          => lastCacheOp'.result = lastCacheOp.value]_vars

\* The third cacheSet left three entries and swept: the entry whose TTL had
\* elapsed is gone, the one written before at the same time and the one just
\* written are kept.
C39_Witness ==
  /\ lastCacheOp.name = "set" /\ lastCacheOp.backend = "memory"
  /\ lastCacheOp.swept
  /\ cacheOps = 3
  /\ Cardinality(DOMAIN memoryCache) = 2
  /\ prefixed(lastCacheOp.key) \in DOMAIN memoryCache
  /\ \A k \in DOMAIN memoryCache : ~elapsed(memoryCache[k], now)

====
